---- MODULE Spec2Model ----
(***************************************************************************)
(* Model of weekly-assistant: the newsletter content generator (index.js) *)
(* and the image cropping tool (crop.js).  Strings are sequences of       *)
(* one-character strings; callbacks of the network, the renderer and the  *)
(* file system are the actions of the model, and every synchronous call   *)
(* chain a callback triggers is part of the action that fires it.         *)
(***************************************************************************)
EXTENDS Integers, Sequences, FiniteSets, TLC

\* Largest number of entries of sites.js explored with index.js.
MaxSites == 2

\* Largest number of entries of sites.js explored with crop.js.
MaxPages == 2

\* Largest number of freely chosen characters of a text given to a function.
MaxTextLen == 3

\* Largest width and height, in pixels, of a source image.
MaxDim == 10

\* Largest number of banner elements and of img elements of a page.
MaxElems == 2

(***************************************************************************)
(* Strings                                                                 *)
(***************************************************************************)
\* The characters of the class [a-z0-9].
LowerAlnum ==
    {"a", "b", "c", "d", "e", "f", "g", "h", "i", "j", "k", "l", "m", "n", "o", "p", "q",
     "r", "s", "t", "u", "v", "w", "x", "y", "z", "0", "1", "2", "3", "4", "5", "6", "7",
     "8", "9"}

\* String.prototype.toLowerCase on one character.
ToLowerChar(c) == IF c = "A" THEN "a" ELSE c

ToLowerCase(s) == [k \in 1..Len(s) |-> ToLowerChar(s[k])]

\* JavaScript undefined where a string is expected.
Undefined == <<"undefined">>

\* 1-based index of the first occurrence of p in s, 0 when there is none
\* (String.prototype.indexOf returns index - 1, and -1 when there is none).
IndexOf(s, p) ==
    LET hits == {k \in 1..(Len(s) - Len(p) + 1) : SubSeq(s, k, k + Len(p) - 1) = p}
    IN IF hits = {} THEN 0 ELSE CHOOSE k \in hits : \A j \in hits : k <= j

\* String.prototype.replace(p, r) with a string pattern: the first occurrence only.
ReplaceFirst(s, p, r) ==
    LET k == IndexOf(s, p)
    IN IF k = 0 THEN s
       ELSE SubSeq(s, 1, k - 1) \o r \o SubSeq(s, k + Len(p), Len(s))

\* s.split(sep)[1]: the text between the first and the second separator.
SplitSecond(s, sep) ==
    LET k == IndexOf(s, sep)
        rest == SubSeq(s, k + Len(sep), Len(s))
        j == IndexOf(rest, sep)
    IN IF k = 0 THEN Undefined
       ELSE IF j = 0 THEN rest ELSE SubSeq(rest, 1, j - 1)

HttpScheme == <<"h", "t", "t", "p", ":">>
SlashSlash == <<"/", "/">>
Www == <<"w", "w", "w", ".">>

\* url.parse(uri).href for the URLs of the model: an http URL gets its host
\* lower-cased and the path "/" when it has none; a string without a scheme is
\* kept as it is (it is parsed as a path).
UrlParseHref(uri) ==
    LET pre == HttpScheme \o SlashSlash
        n == Len(pre)
    IN IF Len(uri) > n /\ SubSeq(uri, 1, n) = pre
       THEN LET rest == SubSeq(uri, n + 1, Len(uri))
                k == IndexOf(rest, <<"/">>)
                host == IF k = 0 THEN rest ELSE SubSeq(rest, 1, k - 1)
                path == IF k = 0 THEN <<"/">> ELSE SubSeq(rest, k, Len(rest))
            IN pre \o ToLowerCase(host) \o path
       ELSE uri

\* replace(/[^a-z0-9]+/g, "-"): every run of other characters becomes one hyphen.
RECURSIVE HyphenateRuns(_)
HyphenateRuns(s) ==
    IF s = <<>> THEN <<>>
    ELSE IF s[1] \in LowerAlnum THEN <<s[1]>> \o HyphenateRuns(Tail(s))
    ELSE IF Len(s) > 1 /\ s[2] \notin LowerAlnum THEN HyphenateRuns(Tail(s))
    ELSE <<"-">> \o HyphenateRuns(Tail(s))

\* replace(/^-+|-+$/g, ""), applied to a string whose hyphens are single.
TrimHyphens(s) ==
    LET a == IF s # <<>> /\ s[1] = "-" THEN Tail(s) ELSE s
    IN IF a # <<>> /\ a[Len(a)] = "-" THEN SubSeq(a, 1, Len(a) - 1) ELSE a

\* The slugifier: lower case, runs of non-alphanumerics to one hyphen, trimmed.
sluggin(text) == TrimHyphens(HyphenateRuns(ToLowerCase(text)))

UnknownSite == <<"u", "n", "k", "n", "o", "w", "n", "-", "s", "i", "t", "e">>

\* cleanName naming a site after the host of its URL alone.
cleanNameHostOnly(uri) ==
    IF uri = <<>> THEN UnknownSite
    ELSE LET hostname == SplitSecond(ReplaceFirst(UrlParseHref(uri), Www, <<>>), SlashSlash)
             k == IF hostname = Undefined THEN 0 ELSE IndexOf(hostname, <<"/">>)
         IN IF hostname = Undefined THEN UnknownSite
            ELSE sluggin(IF k = 0 THEN hostname ELSE SubSeq(hostname, 1, k - 1))

\* cleanName(uri): the slug of what follows "//" in the parsed href, "www."
\* removed; "unknown-site" when the slugifier throws on undefined.
cleanName(uri) ==
    IF uri = <<>> THEN UnknownSite
    ELSE LET hostname == SplitSecond(ReplaceFirst(UrlParseHref(uri), Www, <<>>), SlashSlash)
         IN IF hostname = Undefined THEN UnknownSite ELSE sluggin(hostname)

ExtJpg == <<".", "j", "p", "g">>
ExtMd == <<".", "m", "d">>

\* The entries sites.js may hold.
UrlA == HttpScheme \o SlashSlash \o <<"a", ".", "c">>
UrlWwwA == HttpScheme \o SlashSlash \o Www \o <<"a", ".", "c">>
\* The substring that marks the sites formatted as list items.
Buscandriu == <<"b", "u", "s", "c", "a", "n", "d", "r", "i", "u">>
UrlBuscandriu == HttpScheme \o SlashSlash \o Buscandriu \o <<".", "c", "l">>
Urls == {UrlA, UrlWwwA, UrlBuscandriu}

RECURSIVE SeqsUpTo(_, _)
SeqsUpTo(S, n) ==
    IF n = 0 THEN {<<>>}
    ELSE LET shorter == SeqsUpTo(S, n - 1)
         IN shorter \cup {Append(q, x) : q \in {r \in shorter : Len(r) = n - 1}, x \in S}

(***************************************************************************)
(* JavaScript values                                                       *)
(***************************************************************************)
JsString(s) == [type |-> "string", val |-> s]
JsUndefined == [type |-> "undefined", val |-> <<>>]
JsNull == [type |-> "null", val |-> <<>>]
JsNumber(digits) == [type |-> "number", val |-> digits]

\* The truth value JavaScript gives v in a condition (!v, v || w).
Truthy(v) ==
    CASE v.type = "string" -> v.val # <<>>
      [] v.type = "number" -> v.val # <<"0">>
      [] OTHER -> FALSE

Whitespace == {" "}
UpperAlpha == {"A"}

\* String.prototype.trim
RECURSIVE TrimStart(_)
TrimStart(s) ==
    IF s # <<>> /\ s[1] \in Whitespace THEN TrimStart(Tail(s)) ELSE s

RECURSIVE TrimEnd(_)
TrimEnd(s) ==
    IF s # <<>> /\ s[Len(s)] \in Whitespace THEN TrimEnd(SubSeq(s, 1, Len(s) - 1)) ELSE s

Trim(s) == TrimEnd(TrimStart(s))

\* String.prototype.substring(0, n)
Substring0(s, n) == IF Len(s) > n THEN SubSeq(s, 1, n) ELSE s

(***************************************************************************)
(* crop.js: file names                                                     *)
(***************************************************************************)
\* The length sanitizeFilename cuts its result to.
MaxFilenameLength == 50

\* replace(/[^a-zA-Z0-9\s\-_]/g, "")
RemoveSpecial(s) ==
    SelectSeq(s, LAMBDA c : c \in LowerAlnum \cup UpperAlpha \cup Whitespace \cup {"-", "_"})

\* replace(/\s+/g, "-"): every run of whitespace becomes one hyphen.
RECURSIVE SpacesToHyphen(_)
SpacesToHyphen(s) ==
    IF s = <<>> THEN <<>>
    ELSE IF s[1] \notin Whitespace THEN <<s[1]>> \o SpacesToHyphen(Tail(s))
    ELSE IF Len(s) > 1 /\ s[2] \in Whitespace THEN SpacesToHyphen(Tail(s))
    ELSE <<"-">> \o SpacesToHyphen(Tail(s))

\* replace(/-+/g, "-"): every run of hyphens becomes one hyphen.
RECURSIVE CollapseHyphens(_)
CollapseHyphens(s) ==
    IF s = <<>> THEN <<>>
    ELSE IF s[1] = "-" /\ Len(s) > 1 /\ s[2] = "-" THEN CollapseHyphens(Tail(s))
    ELSE <<s[1]>> \o CollapseHyphens(Tail(s))

\* replace(/^-|-$/g, ""): one hyphen at the start and one at the end are removed.
StripHyphen(s) ==
    LET a == IF s # <<>> /\ s[1] = "-" THEN Tail(s) ELSE s
    IN IF a # <<>> /\ a[Len(a)] = "-" THEN SubSeq(a, 1, Len(a) - 1) ELSE a

Untitled == <<"u", "n", "t", "i", "t", "l", "e", "d">>

(***************************************************************************)
(* index.js: the content of a page                                         *)
(* A text is a sequence of characters and of literals of the source, each  *)
(* literal one element.                                                    *)
(***************************************************************************)
NoTitleFound == <<"No title found">>
NoDescriptionFound == <<"No description found">>

\* s.split(sep)[0]: the text before the first separator.
SplitFirst(s, sep) ==
    LET k == IndexOf(s, sep)
    IN IF k = 0 THEN s ELSE SubSeq(s, 1, k - 1)

\* $("title").text().trim() || "No title found"
title(html) ==
    IF Trim(html.titleText) # <<>> THEN Trim(html.titleText) ELSE NoTitleFound

\* description taking og:description first.
descriptionOgFirst(html) ==
    IF Truthy(html.ogDescription) THEN html.ogDescription.val
    ELSE IF Truthy(html.metaDescription) THEN html.metaDescription.val
    ELSE NoDescriptionFound

\* $("meta[name=description]").attr("content") ||
\* $("meta[property=og:description]").attr("content") || "No description found"
description(html) ==
    IF Truthy(html.metaDescription) THEN html.metaDescription.val
    ELSE IF Truthy(html.ogDescription) THEN html.ogDescription.val
    ELSE NoDescriptionFound

basicFormat(t, d, sitename) ==
    <<"Title: ">> \o t \o <<"\n\nDescription: ">> \o d \o <<"\n\nURL: ">> \o sitename
        \o <<"\n\n">>

\* title.split("|")[0].trim()
cleanTitle(t) == Trim(SplitFirst(t, <<"|">>))

LiOpen == "Buscandriu: <li style=\"text-align: left;\">"
AnchorOpen == "Full format: <a href=\""
LinkOpen == " <a href=\""
StrongOpen == "\" target=\"_blank\"><strong>"
LinkCloseLi == "\" target=\"_blank\"><strong>[link]</strong></a></li>"
LinkCloseBr == "\" target=\"_blank\"><strong>[link]</strong></a><br /><br />"
StrongClose == "</strong></a>: "

\* fullFormat with the title of a buscandriu page left as it is.
fullFormatUncut(t, d, sitename) ==
    IF IndexOf(sitename, Buscandriu) # 0
    THEN <<LiOpen>> \o t \o <<LinkOpen>> \o sitename \o <<LinkCloseLi>>
    ELSE <<AnchorOpen>> \o sitename \o <<StrongOpen>> \o t \o <<StrongClose>> \o d
             \o <<LinkOpen>> \o sitename \o <<LinkCloseBr>>

\* fullFormat: the list item of a buscandriu page, the anchor of any other.
fullFormat(t, d, sitename) ==
    IF IndexOf(sitename, Buscandriu) # 0
    THEN <<LiOpen>> \o cleanTitle(t) \o <<LinkOpen>> \o sitename \o <<LinkCloseLi>>
    ELSE <<AnchorOpen>> \o sitename \o <<StrongOpen>> \o t \o <<StrongClose>> \o d
             \o <<LinkOpen>> \o sitename \o <<LinkCloseBr>>

\* The content getContent hands on for a page that was fetched and parsed.
content(html, sitename) ==
    basicFormat(title(html), description(html), sitename)
        \o fullFormat(title(html), description(html), sitename)

(***************************************************************************)
(* crop.js: the crop rectangle                                             *)
(***************************************************************************)
\* config.outputWidth and config.outputHeight
outputWidth == 400
outputHeight == 200

\* Math.round(p / q) for q > 0: the nearest integer, a half rounded up.
Round(p, q) == (2 * p + q) \div (2 * q)

\* cropGeometry with the test of the two ratios turned around.
cropGeometrySwapped(size) ==
    IF size.width * outputHeight < outputWidth * size.height
    THEN LET cw == Round(size.height * outputWidth, outputHeight)
         IN [cropWidth |-> cw, cropHeight |-> size.height,
             cropX |-> Round(size.width - cw, 2), cropY |-> 0]
    ELSE LET ch == Round(size.width * outputHeight, outputWidth)
         IN [cropWidth |-> size.width, cropHeight |-> ch,
             cropX |-> 0, cropY |-> Round(size.height - ch, 2)]

\* cropGeometry cropping from the top left corner.
cropGeometryTopLeft(size) ==
    IF size.width * outputHeight > outputWidth * size.height
    THEN [cropWidth |-> Round(size.height * outputWidth, outputHeight),
          cropHeight |-> size.height, cropX |-> 0, cropY |-> 0]
    ELSE [cropWidth |-> size.width,
          cropHeight |-> Round(size.width * outputHeight, outputWidth),
          cropX |-> 0, cropY |-> 0]

\* The crop rectangle cropImageFromUrl computes from the size of the image:
\* targetRatio = outputWidth / outputHeight, imageRatio = width / height.
cropGeometry(size) ==
    IF size.width * outputHeight > outputWidth * size.height
    THEN LET cw == Round(size.height * outputWidth, outputHeight)
         IN [cropWidth |-> cw, cropHeight |-> size.height,
             cropX |-> Round(size.width - cw, 2), cropY |-> 0]
    ELSE LET ch == Round(size.width * outputHeight, outputWidth)
         IN [cropWidth |-> size.width, cropHeight |-> ch,
             cropX |-> 0, cropY |-> Round(size.height - ch, 2)]

(***************************************************************************)
(* crop.js: the images of a page                                           *)
(***************************************************************************)
HttpsScheme == <<"h", "t", "t", "p", "s", ":">>
Http == <<"h", "t", "t", "p">>
BackgroundImageUrl == "background-image:url("
Quotes == {"'", "\""}

\* extractBackgroundImageUrl(styleString): the text between "background-image:
\* url(" and the closing parenthesis, without its quotes, trimmed; null when
\* the style has no such declaration or the declaration has no text.
extractBackgroundImageUrl(styleString) ==
    IF ~Truthy(styleString) THEN JsNull
    ELSE LET s == styleString.val
             k == IndexOf(s, <<BackgroundImageUrl>>)
             rest == TrimStart(SubSeq(s, k + 1, Len(s)))
             body == IF rest # <<>> /\ rest[1] \in Quotes THEN Tail(rest) ELSE rest
             ends == {j \in 1..Len(body) : body[j] \in Quotes \cup {")"}}
             e == IF ends = {} THEN 0 ELSE CHOOSE j \in ends : \A m \in ends : j <= m
             after == IF e # 0 /\ body[e] \in Quotes
                      THEN TrimStart(SubSeq(body, e + 1, Len(body)))
                      ELSE SubSeq(body, e, Len(body))
         IN IF k = 0 \/ e <= 1 \/ after = <<>> \/ after[1] # ")" THEN JsNull
            ELSE JsString(Trim(SubSeq(body, 1, e - 1)))

\* url.parse(pageUrl).protocol and .host of an http or https URL.
UrlProtocol(u) == SubSeq(u, 1, IndexOf(u, <<":">>))
UrlHost(u) ==
    LET rest == SubSeq(u, IndexOf(u, SlashSlash) + 2, Len(u))
    IN ToLowerCase(SplitFirst(rest, <<"/">>))
UrlPath(u) ==
    LET rest == SubSeq(u, IndexOf(u, SlashSlash) + 2, Len(u))
        k == IndexOf(rest, <<"/">>)
    IN IF k = 0 THEN <<"/">> ELSE SubSeq(rest, k, Len(rest))

\* The part of a path up to its last "/".
RECURSIVE DirName(_)
DirName(path) ==
    IF path = <<>> \/ path[Len(path)] = "/" THEN path
    ELSE DirName(SubSeq(path, 1, Len(path) - 1))

\* url.resolve(pageUrl, relative) for a relative path without dots or query:
\* the relative path replaces what follows the last "/" of the page's path.
UrlResolve(pageUrl, relative) ==
    UrlProtocol(pageUrl) \o SlashSlash \o UrlHost(pageUrl) \o DirName(UrlPath(pageUrl))
        \o relative

\* "Convert relative URLs to absolute", the same in the two loops of
\* findImagesInPage.
absoluteUrl(imageUrl, pageUrl) ==
    IF IndexOf(imageUrl, SlashSlash) = 1 THEN HttpsScheme \o imageUrl
    ELSE IF IndexOf(imageUrl, <<"/">>) = 1
    THEN UrlProtocol(pageUrl) \o SlashSlash \o UrlHost(pageUrl) \o imageUrl
    ELSE IF IndexOf(imageUrl, Http) # 1 THEN UrlResolve(pageUrl, imageUrl)
    ELSE imageUrl

\* $("title").text().trim() || ""
pageTitle(html) == Trim(html.titleText)

\* $(".breadcrumb-banner").each(...): one entry for every banner whose style
\* has a background image, in the order of the document.
RECURSIVE bannerImages(_, _, _)
bannerImages(banners, html, pageUrl) ==
    IF banners = <<>> THEN <<>>
    ELSE LET styleAttr == Head(banners)
             imageUrl == extractBackgroundImageUrl(styleAttr)
             more == bannerImages(Tail(banners), html, pageUrl)
         IN IF Truthy(styleAttr) /\ Truthy(imageUrl)
            THEN <<[url |-> absoluteUrl(imageUrl.val, pageUrl),
                    selector |-> ".breadcrumb-banner", source |-> "background-image",
                    pageTitle |-> pageTitle(html)]>> \o more
            ELSE more

\* $("img").each(...): one entry for every img with a src, in the order of the
\* document.
RECURSIVE imgImages(_, _, _)
imgImages(imgs, html, pageUrl) ==
    IF imgs = <<>> THEN <<>>
    ELSE LET imageUrl == Head(imgs)
             more == imgImages(Tail(imgs), html, pageUrl)
         IN IF Truthy(imageUrl)
            THEN <<[url |-> absoluteUrl(imageUrl.val, pageUrl),
                    selector |-> "img", source |-> "src",
                    pageTitle |-> pageTitle(html)]>> \o more
            ELSE more

\* findImagesInPage looking at the img elements of every page.
findImagesInPageBoth(html, pageUrl) ==
    bannerImages(html.banners, html, pageUrl) \o imgImages(html.imgs, html, pageUrl)

\* The list findImagesInPage hands to its callback for a page that was
\* fetched and parsed.
findImagesInPage(html, pageUrl) ==
    LET images == bannerImages(html.banners, html, pageUrl)
    IN IF Len(images) = 0 THEN imgImages(html.imgs, html, pageUrl) ELSE images

\* cleanName called with any value: what is falsy or no string gets the
\* fallback name before the URL is parsed.
cleanNameOf(uri) ==
    IF ~Truthy(uri) \/ uri.type # "string" THEN UnknownSite ELSE cleanName(uri.val)

\* sanitizeFilename without the step that makes runs of hyphens one hyphen.
sanitizeFilenameNoCollapse(filename) ==
    IF ~Truthy(filename) \/ filename.type # "string" THEN Untitled
    ELSE Substring0(ToLowerCase(StripHyphen(SpacesToHyphen(
             RemoveSpecial(Trim(filename.val))))), MaxFilenameLength)

\* sanitizeFilename without the cut to MaxFilenameLength characters.
sanitizeFilenameUncut(filename) ==
    IF ~Truthy(filename) \/ filename.type # "string" THEN Untitled
    ELSE ToLowerCase(StripHyphen(CollapseHyphens(SpacesToHyphen(
             RemoveSpecial(Trim(filename.val))))))

\* sanitizeFilename(filename)
sanitizeFilename(filename) ==
    IF ~Truthy(filename) \/ filename.type # "string" THEN Untitled
    ELSE Substring0(ToLowerCase(StripHyphen(CollapseHyphens(SpacesToHyphen(
             RemoveSpecial(Trim(filename.val)))))), MaxFilenameLength)



Unknown == <<"u", "n", "k", "n", "o", "w", "n">>
CroppedImage == "cropped_image_"

\* url.parse(pageUrl).hostname: the lower-cased host of an http or https URL,
\* null for a string without a scheme.
UrlHostname(pageUrl) ==
    LET u == pageUrl.val
        k == IndexOf(u, <<":">> \o SlashSlash)
    IN IF k # 0 /\ SubSeq(u, 1, k) \in {HttpScheme, HttpsScheme}
       THEN JsString(UrlHost(u)) ELSE JsNull

\* hostname.replace(/^www\./, "")
StripWww(hostname) ==
    IF Len(hostname) >= Len(Www) /\ SubSeq(hostname, 1, Len(Www)) = Www
    THEN SubSeq(hostname, Len(Www) + 1, Len(hostname)) ELSE hostname

\* generateFilename without the "unknown" of a URL that has no hostname: the
\* replace on null throws and the catch answers.
generateFilenameNoUnknown(title0, pageUrl, timestamp) ==
    IF pageUrl.type # "string" \/ ~Truthy(UrlHostname(pageUrl))
    THEN <<CroppedImage, timestamp>> \o ExtJpg
    ELSE LET hostname == UrlHostname(pageUrl).val
             clean == sanitizeFilename(JsString(StripWww(hostname)))
             part == IF Truthy(title0) /\ Trim(title0.val) # <<>>
                     THEN sanitizeFilename(title0) ELSE Untitled
             cleanHostname == IF clean = <<>> THEN Unknown ELSE clean
             titlePart == IF part = <<>> THEN Untitled ELSE part
         IN cleanHostname \o <<"_">> \o titlePart \o <<"_", timestamp>> \o ExtJpg

\* generateFilename(pageTitle, pageUrl), timestamp being what Date.now()
\* answers. url.parse throws for a pageUrl that is no string, and the catch
\* answers with the fallback name. pageTitle is a string or absent.
generateFilename(title0, pageUrl, timestamp) ==
    IF pageUrl.type # "string" THEN <<CroppedImage, timestamp>> \o ExtJpg
    ELSE LET parsed == UrlHostname(pageUrl)
             hostname == IF Truthy(parsed) THEN parsed.val ELSE Unknown
             clean == sanitizeFilename(JsString(StripWww(hostname)))
             part == IF Truthy(title0) /\ Trim(title0.val) # <<>>
                     THEN sanitizeFilename(title0) ELSE Untitled
             cleanHostname == IF clean = <<>> THEN Unknown ELSE clean
             titlePart == IF part = <<>> THEN Untitled ELSE part
         IN cleanHostname \o <<"_">> \o titlePart \o <<"_", timestamp>> \o ExtJpg

(***************************************************************************)
(* State                                                                   *)
(***************************************************************************)
VARIABLES
    tool,          \* which program runs: "index" (node .) or "crop" (node crop.js)
    sitesIsArray,  \* Array.isArray(sites)
    sites,         \* the entries of sites.js (of the array, or of the object or
                   \* array-like it exports instead)
    pc,            \* "start", "running" or "exited"
    exitCode,      \* the exit status once pc = "exited", -1 before
    shot,          \* per site: the screenshot sub-task
    text,          \* per site: the fetch/format/write sub-task
    shotCount,     \* per site: renderer invocations
    fetchCount,    \* per site: page requests issued
    writeCount,    \* per site: file writes issued
    parResults,    \* per site: async.parallel's results array
    parDone,       \* per site: sub-tasks that completed without error
    parCalls,      \* per site: invocations of parseUrl's callback
    results,       \* async.map's results array
    slotWrites,    \* per slot: assignments to results[i]
    mapDone,       \* iteratee completions seen by async.map
    mapCalls,      \* invocations of parseSites' callback
    mapErr,        \* the error parseSites' callback received
    log,           \* success messages printed by main
    completed,     \* the completion message was printed
    errors,        \* console.error lines, as <<site, kind>>
    files,         \* files written, as <<path, site>>
    page,          \* per page (crop.js): the stage of processPage
    downloadCount, \* per page (crop.js): image downloads issued
    outcomes,      \* per page (crop.js): outcomes reported by the batch loop
    dir,           \* the output directory of crop.js: whether it exists, its
                   \* regular files and its sub-directories
    emptyCalls,    \* calls of emptyDirectory
    contentCalls,  \* per site: invocations of the callback handed to getContent
    call,          \* a function called on its own: its name and its arguments
    ret            \* what that call returned, NoReturn before it has

vars == <<tool, sitesIsArray, sites, pc, exitCode, shot, text, shotCount, fetchCount,
          writeCount, parResults, parDone, parCalls, results, slotWrites, mapDone,
          mapCalls, mapErr, log, completed, errors, files, page, downloadCount,
          outcomes, dir, emptyCalls, contentCalls, call, ret>>

NoError == "none"
Msg(m, a) == [msg |-> m, arg |-> a]
NoMsg == Msg("undefined", <<>>)

N == Len(sites)
Idx == 1..N

\* The mutable part of the state as one record, so that a synchronous call
\* chain is the composition of the functions it calls.
Cur ==
    [pc |-> pc, exitCode |-> exitCode, shot |-> shot, text |-> text,
     shotCount |-> shotCount, fetchCount |-> fetchCount, writeCount |-> writeCount,
     parResults |-> parResults, parDone |-> parDone, parCalls |-> parCalls,
     results |-> results, slotWrites |-> slotWrites, mapDone |-> mapDone,
     mapCalls |-> mapCalls, mapErr |-> mapErr, log |-> log, completed |-> completed,
     errors |-> errors, files |-> files, page |-> page,
     downloadCount |-> downloadCount, outcomes |-> outcomes, dir |-> dir,
     emptyCalls |-> emptyCalls, contentCalls |-> contentCalls]

Becomes(s) ==
    /\ pc' = s.pc /\ exitCode' = s.exitCode /\ shot' = s.shot /\ text' = s.text
    /\ shotCount' = s.shotCount /\ fetchCount' = s.fetchCount
    /\ writeCount' = s.writeCount /\ parResults' = s.parResults
    /\ parDone' = s.parDone /\ parCalls' = s.parCalls /\ results' = s.results
    /\ slotWrites' = s.slotWrites /\ mapDone' = s.mapDone /\ mapCalls' = s.mapCalls
    /\ mapErr' = s.mapErr /\ log' = s.log /\ completed' = s.completed
    /\ errors' = s.errors /\ files' = s.files /\ page' = s.page
    /\ downloadCount' = s.downloadCount /\ outcomes' = s.outcomes
    /\ dir' = s.dir /\ emptyCalls' = s.emptyCalls
    /\ contentCalls' = s.contentCalls
    /\ UNCHANGED <<tool, sitesIsArray, sites, call, ret>>

\* No function is called on its own in a run of one of the two programs.
NoCall == [fn |-> "none"]
NoReturn == [returned |-> FALSE]
Returned(v) == [returned |-> TRUE, value |-> v]

\* The state of a program that has been loaded and has not started.
Loaded ==
    /\ pc = "start"
    /\ exitCode = -1
    /\ shot = [i \in Idx |-> "idle"]
    /\ text = [i \in Idx |-> "idle"]
    /\ shotCount = [i \in Idx |-> 0]
    /\ fetchCount = [i \in Idx |-> 0]
    /\ writeCount = [i \in Idx |-> 0]
    /\ parResults = [i \in Idx |-> <<NoMsg, NoMsg>>]
    /\ parDone = [i \in Idx |-> 0]
    /\ parCalls = [i \in Idx |-> 0]
    /\ results = [i \in Idx |-> <<>>]
    /\ slotWrites = [i \in Idx |-> 0]
    /\ mapDone = 0
    /\ mapCalls = 0
    /\ mapErr = NoError
    /\ log = <<>>
    /\ completed = FALSE
    /\ errors = {}
    /\ files = {}
    /\ page = [i \in Idx |-> "idle"]
    /\ downloadCount = [i \in Idx |-> 0]
    /\ outcomes = [i \in Idx |-> 0]
    /\ emptyCalls = 0
    /\ contentCalls = [i \in Idx |-> 0]

\* The output directory before a run of crop.js: missing, or left by an earlier
\* run with an image in it and a sub-directory.
StaleFile == <<"old.jpg">>
SubDirectory == <<"sub">>
NoDirectory == [exists |-> FALSE, files |-> {}, subdirs |-> {}]
Directories ==
    {NoDirectory,
     [exists |-> TRUE, files |-> {}, subdirs |-> {}],
     [exists |-> TRUE, files |-> {StaleFile}, subdirs |-> {SubDirectory}]}

Init ==
    /\ tool \in {"index", "crop"}
    /\ sitesIsArray \in BOOLEAN
    /\ sites \in SeqsUpTo(Urls, IF tool = "index" THEN MaxSites ELSE MaxPages)
    /\ dir \in (IF tool = "crop" THEN Directories ELSE {NoDirectory})
    /\ Loaded
    /\ call = NoCall
    /\ ret = NoReturn

(***************************************************************************)
(* index.js                                                                *)
(***************************************************************************)
ValidSites == sitesIsArray /\ N > 0

\* A sub-task or a pipeline stage that has been started and has not called back.
InFlight(s, i) ==
    \/ s.shot[i] = "inflight"
    \/ s.text[i] \in {"fetching", "writing"}
    \/ s.page[i] \in {"fetching", "downloading", "sizing", "writing"}

\* node ends the process with status 0 once nothing is pending any more.
EventLoop(s) ==
    IF s.pc = "running" /\ \A i \in Idx : ~InFlight(s, i)
    THEN [s EXCEPT !.pc = "exited", !.exitCode = 0]
    ELSE s

\* results.forEach(result => result.forEach(log => if (log) console.log(log)))
RECURSIVE Flatten(_)
Flatten(res) ==
    IF res = <<>> THEN <<>>
    ELSE SelectSeq(Head(res), LAMBDA m : m # NoMsg) \o Flatten(Tail(res))

\* mainCallback with the error branch only logging (no process.exit).
mainCallbackNoExit(s, err, res) ==
    IF err # NoError
    THEN [s EXCEPT !.errors = @ \cup {<<0, "Error processing sites">>}]
    ELSE [s EXCEPT !.log = @ \o Flatten([i \in Idx |-> res[i]]),
                   !.completed = TRUE]

\* mainCallback printing the messages gathered so far before it exits on an
\* error.
mainCallbackLogPartial(s, err, res) ==
    IF err # NoError
    THEN [s EXCEPT !.errors = @ \cup {<<0, "Error processing sites">>},
                   !.log = @ \o (IF res = <<>> THEN <<>>
                                  ELSE Flatten([i \in Idx |-> res[i]])),
                   !.pc = "exited", !.exitCode = 1]
    ELSE [s EXCEPT !.log = @ \o Flatten([i \in Idx |-> res[i]]),
                   !.completed = TRUE]

\* mainCallback with process.exit() called without a status.
mainCallbackExitZero(s, err, res) ==
    IF err # NoError
    THEN [s EXCEPT !.errors = @ \cup {<<0, "Error processing sites">>},
                   !.pc = "exited", !.exitCode = 0]
    ELSE [s EXCEPT !.log = @ \o Flatten([i \in Idx |-> res[i]]),
                   !.completed = TRUE]

\* The callback main hands to parseSites.
mainCallback(s, err, res) ==
    IF err # NoError
    THEN [s EXCEPT !.errors = @ \cup {<<0, "Error processing sites">>},
                   !.pc = "exited", !.exitCode = 1]
    ELSE [s EXCEPT !.log = @ \o Flatten([i \in Idx |-> res[i]]),
                   !.completed = TRUE]

\* asyncMapDone that waits for every item before it reports the first error.
asyncMapDoneSettled(s, i, err, v) ==
    LET s1 == [s EXCEPT !.results[i] = v, !.slotWrites[i] = @ + 1, !.mapDone = @ + 1,
                        !.mapErr = IF @ = NoError THEN err ELSE @]
    IN IF s1.mapDone = N /\ s1.mapCalls = 0
       THEN mainCallback([s1 EXCEPT !.mapCalls = 1], s1.mapErr, s1.results)
       ELSE s1

\* asyncMapDone that stores the results in completion order (results.push).
asyncMapDonePush(s, i, err, v) ==
    LET k == s.mapDone + 1
        s1 == [s EXCEPT !.results[k] = v, !.slotWrites[k] = @ + 1, !.mapDone = @ + 1]
    IN IF err # NoError
       THEN IF s1.mapCalls = 0
            THEN mainCallback([s1 EXCEPT !.mapCalls = 1, !.mapErr = err], err, s1.results)
            ELSE s1
       ELSE IF s1.mapDone = N /\ s1.mapCalls = 0
            THEN mainCallback([s1 EXCEPT !.mapCalls = 1], NoError, s1.results)
            ELSE s1

\* asyncMapDone whose completion test is off by one.
asyncMapDoneOffByOne(s, i, err, v) ==
    LET s1 == [s EXCEPT !.results[i] = v, !.slotWrites[i] = @ + 1, !.mapDone = @ + 1]
    IN IF err # NoError
       THEN IF s1.mapCalls = 0
            THEN mainCallback([s1 EXCEPT !.mapCalls = 1, !.mapErr = err], err, s1.results)
            ELSE s1
       ELSE IF s1.mapDone = N + 1 /\ s1.mapCalls = 0
            THEN mainCallback([s1 EXCEPT !.mapCalls = 1], NoError, s1.results)
            ELSE s1

\* async.map's per-item callback: the slot is assigned, the first error ends
\* the map at once, and the map ends without error when every item is done.
asyncMapDone(s, i, err, v) ==
    LET s1 == [s EXCEPT !.results[i] = v, !.slotWrites[i] = @ + 1, !.mapDone = @ + 1]
    IN IF err # NoError
       THEN IF s1.mapCalls = 0
            THEN mainCallback([s1 EXCEPT !.mapCalls = 1, !.mapErr = err], err, s1.results)
            ELSE s1
       ELSE IF s1.mapDone = N /\ s1.mapCalls = 0
            THEN mainCallback([s1 EXCEPT !.mapCalls = 1], NoError, s1.results)
            ELSE s1

\* asyncParallelDone that resolves when the first sub-task has succeeded.
asyncParallelDoneEarly(s, i, k, err, v) ==
    IF err # NoError
    THEN IF s.parCalls[i] = 0
         THEN asyncMapDone([s EXCEPT !.parCalls[i] = 1], i, err, s.parResults[i])
         ELSE s
    ELSE LET s1 == [s EXCEPT !.parResults[i][k] = v, !.parDone[i] = @ + 1]
         IN IF s1.parDone[i] = 1 /\ s1.parCalls[i] = 0
            THEN asyncMapDone([s1 EXCEPT !.parCalls[i] = 1], i, NoError, s1.parResults[i])
            ELSE s1

\* asyncParallelDone that stores the results in completion order.
asyncParallelDonePush(s, i, k, err, v) ==
    IF err # NoError
    THEN IF s.parCalls[i] = 0
         THEN asyncMapDone([s EXCEPT !.parCalls[i] = 1], i, err, s.parResults[i])
         ELSE s
    ELSE LET s1 == [s EXCEPT !.parResults[i][s.parDone[i] + 1] = v, !.parDone[i] = @ + 1]
         IN IF s1.parDone[i] = 2 /\ s1.parCalls[i] = 0
            THEN asyncMapDone([s1 EXCEPT !.parCalls[i] = 1], i, NoError, s1.parResults[i])
            ELSE s1

\* async.parallel's per-task callback in parseUrl: k = 1 is the screenshot,
\* k = 2 the text pipeline.  The first error calls parseUrl's callback at once.
asyncParallelDone(s, i, k, err, v) ==
    IF err # NoError
    THEN IF s.parCalls[i] = 0
         THEN asyncMapDone([s EXCEPT !.parCalls[i] = 1], i, err, s.parResults[i])
         ELSE s
    ELSE LET s1 == [s EXCEPT !.parResults[i][k] = v, !.parDone[i] = @ + 1]
         IN IF s1.parDone[i] = 2 /\ s1.parCalls[i] = 0
            THEN asyncMapDone([s1 EXCEPT !.parCalls[i] = 1], i, NoError, s1.parResults[i])
            ELSE s1

\* getScreenshot up to the renderer call.
getScreenshot(s, i) ==
    [s EXCEPT !.shot[i] = "inflight", !.shotCount[i] = @ + 1]

\* The callback getScreenshot hands to webshot; the renderer wrote the file
\* cleanName(sitename) + ".jpg" when it reports success.
webshotCallback(s, i, ok) ==
    IF ~ok
    THEN asyncParallelDone([s EXCEPT !.shot[i] = "err",
                                     !.errors = @ \cup {<<i, "shot">>}],
                           i, 1, "shot", NoMsg)
    ELSE asyncParallelDone([s EXCEPT !.shot[i] = "ok",
                                     !.files = @ \cup {<<cleanName(sites[i]) \o ExtJpg, i>>}],
                           i, 1, NoError, Msg("screenshot saved", sites[i]))

\* getContent up to the request call.
getContent(s, i) ==
    [s EXCEPT !.text[i] = "fetching", !.fetchCount[i] = @ + 1]

\* writeToFile up to the fs.writeFile call.
writeToFile(s, i) ==
    [s EXCEPT !.text[i] = "writing", !.writeCount[i] = @ + 1]

\* writeFileCallback writing to a name made unique by the position in the list.
writeFileCallbackIndexed(s, i, ok) ==
    IF ~ok
    THEN asyncParallelDone([s EXCEPT !.text[i] = "err",
                                     !.errors = @ \cup {<<i, "write">>}],
                           i, 2, "write", NoMsg)
    ELSE asyncParallelDone([s EXCEPT !.text[i] = "ok",
                                     !.files = @ \cup {<<cleanName(sites[i]) \o <<"-", <<"1", "2", "3", "4", "5">>[i]>> \o ExtMd, i>>}],
                           i, 2, NoError, Msg("file created", cleanName(sites[i])))

\* The callback writeToFile hands to fs.writeFile.
writeFileCallback(s, i, ok) ==
    IF ~ok
    THEN asyncParallelDone([s EXCEPT !.text[i] = "err",
                                     !.errors = @ \cup {<<i, "write">>}],
                           i, 2, "write", NoMsg)
    ELSE asyncParallelDone([s EXCEPT !.text[i] = "ok",
                                     !.files = @ \cup {<<cleanName(sites[i]) \o ExtMd, i>>}],
                           i, 2, NoError, Msg("file created", cleanName(sites[i])))

\* async.waterfall in getContentAndWriteToFile: an error of getContent skips
\* writeToFile and goes to the callback, a result is handed to writeToFile.
asyncWaterfallNext(s, i, err) ==
    IF err # NoError
    THEN asyncParallelDone([s EXCEPT !.contentCalls[i] = @ + 1], i, 2, err, NoMsg)
    ELSE writeToFile([s EXCEPT !.contentCalls[i] = @ + 1], i)

\* What request reports for a page: a transport error, a status other than
\* 200, a page cheerio fails on, or a page that is parsed.
RequestOutcomes == {"transport", "HTTP404", "HTTP500", "parse", "ok"}
HttpErrors == {"HTTP404", "HTTP500"}

\* response.statusCode, as it is printed.
statusCode(outcome) ==
    IF outcome = "HTTP404" THEN <<"4", "0", "4">>
    ELSE IF outcome = "HTTP500" THEN <<"5", "0", "0">>
    ELSE <<"2", "0", "0">>

\* The message of the error getContent passes to its callback: that of
\* statusError for a status other than 200, else the one the failing call made.
errorMessage(outcome, sitename) ==
    IF outcome \in HttpErrors
    THEN <<"HTTP ">> \o statusCode(outcome) \o <<" - ">> \o sitename
    ELSE <<outcome>>

\* requestCallback that logs a status other than 200 and goes on with the page.
requestCallbackLogOnly(s, i, outcome) ==
    IF outcome = "ok"
    THEN asyncWaterfallNext(s, i, NoError)
    ELSE IF outcome \in HttpErrors
    THEN asyncWaterfallNext([s EXCEPT !.errors = @ \cup {<<i, outcome>>}], i, NoError)
    ELSE asyncWaterfallNext([s EXCEPT !.text[i] = "err",
                                      !.errors = @ \cup {<<i, outcome>>}],
                            i, outcome)

\* requestCallback that logs a status other than 200 and calls nothing back.
requestCallbackSilent(s, i, outcome) ==
    IF outcome = "ok"
    THEN asyncWaterfallNext(s, i, NoError)
    ELSE IF outcome \in HttpErrors
    THEN [s EXCEPT !.text[i] = "err", !.errors = @ \cup {<<i, outcome>>}]
    ELSE asyncWaterfallNext([s EXCEPT !.text[i] = "err",
                                      !.errors = @ \cup {<<i, outcome>>}],
                            i, outcome)

\* requestCallback that logs a parse error and hands on what it has.
requestCallbackWriteUnparsed(s, i, outcome) ==
    IF outcome = "ok"
    THEN asyncWaterfallNext(s, i, NoError)
    ELSE IF outcome = "parse"
    THEN asyncWaterfallNext([s EXCEPT !.errors = @ \cup {<<i, outcome>>}], i, NoError)
    ELSE asyncWaterfallNext([s EXCEPT !.text[i] = "err",
                                      !.errors = @ \cup {<<i, outcome>>}],
                            i, outcome)

\* requestCallback that issues the request a second time after a transport error.
requestCallbackRetry(s, i, outcome) ==
    IF outcome = "ok"
    THEN asyncWaterfallNext(s, i, NoError)
    ELSE IF outcome = "transport" /\ s.fetchCount[i] < 2
    THEN getContent(s, i)
    ELSE asyncWaterfallNext([s EXCEPT !.text[i] = "err",
                                      !.errors = @ \cup {<<i, outcome>>}],
                            i, outcome)

\* The callback getContent hands to request.
requestCallback(s, i, outcome) ==
    IF outcome = "ok"
    THEN asyncWaterfallNext(s, i, NoError)
    ELSE asyncWaterfallNext([s EXCEPT !.text[i] = "err",
                                      !.errors = @ \cup {<<i, outcome>>}],
                            i, outcome)

\* parseUrl: both sub-tasks are started.
parseUrl(s, i) == getContent(getScreenshot(s, i), i)

\* The items async.map starts before any of them completes.
asyncMapStarts == Idx

\* async.map(sites, parseUrl, callback): parseUrl is started on every item, in
\* input order, before any callback can run.
RECURSIVE asyncMap(_, _)
asyncMap(s, todo) ==
    IF todo = {} THEN s
    ELSE LET i == CHOOSE j \in todo : \A m \in todo : j <= m
         IN asyncMap(parseUrl(s, i), todo \ {i})

\* parseSites without the validation.
parseSitesNoValidation(s) == asyncMap(s, asyncMapStarts)

\* parseSites: the validation, then async.map over the sites.
parseSites(s) ==
    IF ~sitesIsArray \/ N = 0
    THEN mainCallback(s, "Sites array is empty or invalid", <<>>)
    ELSE asyncMap(s, asyncMapStarts)

\* main(), run when the module is loaded.
Main ==
    /\ tool = "index"
    /\ pc = "start"
    /\ Becomes(parseSites([Cur EXCEPT !.pc = "running"]))

WebshotDone(i, ok) ==
    /\ tool = "index"
    /\ pc = "running"
    /\ shot[i] = "inflight"
    /\ Becomes(EventLoop(webshotCallback(Cur, i, ok)))

RequestDone(i, outcome) ==
    /\ tool = "index"
    /\ pc = "running"
    /\ text[i] = "fetching"
    /\ Becomes(EventLoop(requestCallback(Cur, i, outcome)))

WriteFileDone(i, ok) ==
    /\ tool = "index"
    /\ pc = "running"
    /\ text[i] = "writing"
    /\ Becomes(EventLoop(writeFileCallback(Cur, i, ok)))

(***************************************************************************)
(* crop.js                                                                 *)
(***************************************************************************)
\* batchCallback that ends the process on a page's error, as index.js does.
batchCallbackExit(s, i, err) ==
    IF err # NoError
    THEN [s EXCEPT !.page[i] = "err", !.outcomes[i] = @ + 1,
                   !.errors = @ \cup {<<i, err>>},
                   !.pc = "exited", !.exitCode = 1]
    ELSE [s EXCEPT !.page[i] = "ok", !.outcomes[i] = @ + 1,
                   !.log = Append(@, Msg("Success for", sites[i]))]

\* The callback the batch loop hands to processPage: one outcome per call.
batchCallback(s, i, err) ==
    IF err # NoError
    THEN [s EXCEPT !.page[i] = "err", !.outcomes[i] = @ + 1,
                   !.errors = @ \cup {<<i, err>>}]
    ELSE [s EXCEPT !.page[i] = "ok", !.outcomes[i] = @ + 1,
                   !.log = Append(@, Msg("Success for", sites[i]))]

\* What Date.now() may answer.
Timestamps == {"1700000000000", "1700000000001"}

\* The title of the pages of a run.
PageTitleText == <<"A">>

\* The outputPath processPage hands to cropImageFromUrl: the name
\* generateFilename makes, in the output directory. Nothing reads the name
\* before gm has written the file, so Date.now() is drawn when it has.
outputPath(i, timestamp) ==
    generateFilename(JsString(pageTitle([titleText |-> PageTitleText])),
                     JsString(sites[i]), timestamp)

\* The callback cropImageFromUrl hands to gm's write; gm wrote outputPath when
\* it reports no error.
gmWriteCallback(s, i, ok, timestamp) ==
    IF ~ok THEN batchCallback(s, i, "Failed to save image")
    ELSE batchCallback(
             [s EXCEPT !.files = @ \cup {<<outputPath(i, timestamp), i>>},
                       !.dir.files = @ \cup {outputPath(i, timestamp)}],
             i, NoError)

\* The callback cropImageFromUrl hands to gm's size: the crop is computed and
\* the write is started.
gmSizeCallback(s, i, ok) ==
    IF ~ok THEN batchCallback(s, i, "Failed to get image size")
    ELSE [s EXCEPT !.page[i] = "writing", !.writeCount[i] = @ + 1]

ImageOutcomes == {"transport", "HTTP404", "ok"}

\* The callback cropImageFromUrl hands to request.
imageRequestCallback(s, i, outcome) ==
    IF outcome = "transport" THEN batchCallback(s, i, "Failed to download image")
    ELSE IF outcome = "HTTP404" THEN batchCallback(s, i, "HTTP 404 image")
    ELSE [s EXCEPT !.page[i] = "sizing"]

\* cropImageFromUrl up to the request call.
cropImageFromUrl(s, i) ==
    [s EXCEPT !.page[i] = "downloading", !.downloadCount[i] = @ + 1]

\* findImagesCallback without the test for an empty list.
findImagesCallbackAny(s, i, err, nImages) ==
    IF err # NoError THEN batchCallback(s, i, err)
    ELSE cropImageFromUrl(s, i)

\* The callback processPage hands to findImagesInPage.
findImagesCallback(s, i, err, nImages) ==
    IF err # NoError THEN batchCallback(s, i, err)
    ELSE IF nImages = 0 THEN batchCallback(s, i, "No images found")
    ELSE cropImageFromUrl(s, i)

PageOutcomes == {"transport", "HTTP404", "parse", "empty", "images"}

\* The callback findImagesInPage hands to request.
pageRequestCallback(s, i, outcome) ==
    IF outcome = "transport" THEN findImagesCallback(s, i, "Failed to fetch page", 0)
    ELSE IF outcome = "HTTP404" THEN findImagesCallback(s, i, "HTTP 404 page", 0)
    ELSE IF outcome = "parse" THEN findImagesCallback(s, i, "Failed to parse HTML", 0)
    ELSE IF outcome = "empty" THEN findImagesCallback(s, i, NoError, 0)
    ELSE findImagesCallback(s, i, NoError, 1)

\* ensureDirectory(directory): the directory is made when it is missing.
ensureDirectory(s) == [s EXCEPT !.dir.exists = TRUE]

\* emptyDirectory(directory): nothing for a missing directory; else every
\* regular file is unlinked. removed is FALSE when fs throws before the first
\* unlink: the catch warns and the files stay.
emptyDirectory(s, removed) ==
    IF ~s.dir.exists THEN [s EXCEPT !.emptyCalls = @ + 1]
    ELSE IF removed THEN [s EXCEPT !.emptyCalls = @ + 1, !.dir.files = {}]
    ELSE [s EXCEPT !.emptyCalls = @ + 1]

\* processPage emptying the output directory before it starts.
processPageEmptying(s, i) ==
    [ensureDirectory(emptyDirectory(s, TRUE)) EXCEPT !.page[i] = "fetching",
                                                     !.fetchCount[i] = @ + 1]

\* processPage up to the request call of findImagesInPage.
processPage(s, i) ==
    [ensureDirectory(s) EXCEPT !.page[i] = "fetching", !.fetchCount[i] = @ + 1]

\* sites.forEach(processPage)
RECURSIVE sitesForEach(_, _)
sitesForEach(s, todo) ==
    IF todo = {} THEN s
    ELSE LET i == CHOOSE j \in todo : \A m \in todo : j <= m
         IN sitesForEach(processPage(s, i), todo \ {i})

\* The command line of crop.js: the validation, then the batch loop.
cropCli(s, removed) ==
    IF ~sitesIsArray \/ N = 0
    THEN [s EXCEPT !.errors = @ \cup {<<0, "No URLs found in sites.js">>},
                   !.pc = "exited", !.exitCode = 1]
    ELSE sitesForEach(ensureDirectory(emptyDirectory(s, removed)), Idx)

CropMain(removed) ==
    /\ tool = "crop"
    /\ pc = "start"
    /\ Becomes(cropCli([Cur EXCEPT !.pc = "running"], removed))

PageRequestDone(i, outcome) ==
    /\ tool = "crop"
    /\ pc = "running"
    /\ page[i] = "fetching"
    /\ Becomes(EventLoop(pageRequestCallback(Cur, i, outcome)))

ImageRequestDone(i, outcome) ==
    /\ tool = "crop"
    /\ pc = "running"
    /\ page[i] = "downloading"
    /\ Becomes(EventLoop(imageRequestCallback(Cur, i, outcome)))

GmSizeDone(i, ok) ==
    /\ tool = "crop"
    /\ pc = "running"
    /\ page[i] = "sizing"
    /\ Becomes(EventLoop(gmSizeCallback(Cur, i, ok)))

GmWriteDone(i, ok, timestamp) ==
    /\ tool = "crop"
    /\ pc = "running"
    /\ page[i] = "writing"
    /\ Becomes(EventLoop(gmWriteCallback(Cur, i, ok, timestamp)))

Next ==
    \/ Main
    \/ \E i \in Idx, ok \in BOOLEAN : WebshotDone(i, ok)
    \/ \E i \in Idx, outcome \in RequestOutcomes : RequestDone(i, outcome)
    \/ \E i \in Idx, ok \in BOOLEAN : WriteFileDone(i, ok)
    \/ \E removed \in BOOLEAN : CropMain(removed)
    \/ \E i \in Idx, outcome \in PageOutcomes : PageRequestDone(i, outcome)
    \/ \E i \in Idx, outcome \in ImageOutcomes : ImageRequestDone(i, outcome)
    \/ \E i \in Idx, ok \in BOOLEAN : GmSizeDone(i, ok)
    \/ \E i \in Idx, ok \in BOOLEAN, timestamp \in Timestamps : GmWriteDone(i, ok, timestamp)

Spec == Init /\ [][Next]_vars

(***************************************************************************)
(* Functions called on their own                                           *)
(***************************************************************************)
\* The variables of a run of one of the two programs.
progVars == <<tool, sitesIsArray, sites, pc, exitCode, shot, text, shotCount,
              fetchCount, writeCount, parResults, parDone, parCalls, results,
              slotWrites, mapDone, mapCalls, mapErr, log, completed, errors, files,
              page, downloadCount, outcomes, dir, emptyCalls, contentCalls>>

\* k times the character "a".
Pad(k) == [j \in 1..k |-> "a"]

\* The characters of the texts given to sanitizeFilename: a lower-case and an
\* upper-case letter, a digit, white space, the two kept punctuation marks and
\* one special character.
FilenameAlphabet == {"a", "A", "0", " ", "-", "_", "!"}

\* Texts that stay below the length limit and texts that reach or pass it.
PadLengths == {0} \cup ((MaxFilenameLength - 2)..MaxFilenameLength)

FilenameInputs ==
    {JsString(Pad(k) \o s) : k \in PadLengths, s \in SeqsUpTo(FilenameAlphabet, MaxTextLen)}
        \cup {JsUndefined, JsNull, JsNumber(<<"0">>), JsNumber(<<"5">>)}

\* Well-formed URLs, by their parts: with or without "www.", a host, a path.
Hosts == {<<"a", ".", "c">>, <<"b", ".", "c">>}
Paths ==
    {<<>>, <<"/">>, <<"/", "p">>, <<"/", "p", "/", "/", "b">>, <<"/">> \o Www \o <<"p">>}
UrlOf(www, host, path) ==
    HttpScheme \o SlashSlash \o (IF www THEN Www ELSE <<>>) \o host \o path

\* Values that are no URL: no string, the empty string, and strings without a
\* scheme, one of them like the "invalid-url" of the tests.
NoUrls ==
    {JsUndefined, JsNull, JsNumber(<<"5">>), JsString(<<>>)}
        \cup {JsString(s) : s \in {<<"a", "-", "b">>, <<"a", ".", "c">>,
                                   <<"a", "/", "/", "b">>, <<"/", "/", "a", ".", "c">>}}

CleanNameCalls ==
    {[fn |-> "cleanName", arg |-> JsString(UrlOf(w, h, q)), wellFormed |-> TRUE,
      www |-> w, host |-> h, path |-> q] : w \in BOOLEAN, h \in Hosts, q \in Paths}
        \cup {[fn |-> "cleanName", arg |-> x, wellFormed |-> FALSE] : x \in NoUrls}

\* The sizes gm reports: positive integers.
Sizes == [width : 1..MaxDim, height : 1..MaxDim]

\* The pages: the text of the title element (empty when there is none) and the
\* content attribute of the two description elements (undefined when the
\* element or the attribute is missing).
TitleTexts ==
    {<<>>, <<" ">>, <<"F">>, <<" ", "F", " ">>, <<"F", " ", "|", " ", "X">>, <<"|", "X">>}
Htmls ==
    [titleText : TitleTexts,
     metaDescription : {JsUndefined, JsString(<<>>), JsString(<<"D">>)},
     ogDescription : {JsUndefined, JsString(<<>>), JsString(<<"O">>)}]

\* The URLs a page gives its images: protocol-relative, root-relative,
\* path-relative, absolute, and a path-relative one that starts with "http".
ProtocolRelative == <<"/", "/", "b", ".", "c", "/", "x">>
RootRelative == <<"/", "i", "/", "x">>
PathRelative == <<"x">>
PathRelativeHttp == <<"h", "t", "t", "p", "x">>
AbsoluteHttp == HttpScheme \o SlashSlash \o <<"b", ".", "c", "/", "x">>
AbsoluteHttps == HttpsScheme \o SlashSlash \o <<"b", ".", "c", "/", "x">>
ImageUrls ==
    {ProtocolRelative, RootRelative, PathRelative, PathRelativeHttp, AbsoluteHttp,
     AbsoluteHttps}

\* The style attribute of a banner with the background image u.
StyleOf(u, quote) ==
    JsString(<<"color:red;", BackgroundImageUrl>> \o quote \o u \o quote \o <<")">>)

\* A banner: its style attribute and the background image that style declares.
Banner(style, bg) == [style |-> style, bg |-> bg]
PlainBanners ==
    {Banner(JsUndefined, JsNull), Banner(JsString(<<>>), JsNull),
     Banner(JsString(<<"color:red;">>), JsNull)}
ImageBanners(urls) ==
    {Banner(StyleOf(u, q), JsString(u)) : u \in urls, q \in {<<>>, <<"'">>}}

\* The pages crop.js is run on.
PageUrls ==
    {HttpScheme \o SlashSlash \o <<"a", ".", "c">>,
     HttpScheme \o SlashSlash \o <<"a", ".", "c", "/", "d", "/", "p">>,
     HttpsScheme \o SlashSlash \o <<"a", ".", "c", "/", "p">>}

\* Pages with up to MaxElems banners and imgs, and pages with one image of
\* every kind of URL.
FindImagesCalls ==
    {[fn |-> "findImagesInPage", banners |-> b, imgs |-> m,
      pageUrl |-> HttpScheme \o SlashSlash \o <<"a", ".", "c">>] :
         b \in SeqsUpTo({Banner(JsUndefined, JsNull), Banner(JsString(<<"color:red;">>), JsNull)}
                            \cup ImageBanners({RootRelative, AbsoluteHttp}), MaxElems),
         m \in SeqsUpTo({JsUndefined, JsString(PathRelative), JsString(AbsoluteHttps)},
                        MaxElems)}
      \cup {[fn |-> "findImagesInPage", banners |-> <<b>>, imgs |-> <<m>>, pageUrl |-> q] :
               b \in PlainBanners \cup ImageBanners(ImageUrls),
               m \in {JsString(u) : u \in ImageUrls},
               q \in PageUrls}

\* Page titles: absent, or a text of a lower-case and an upper-case letter,
\* white space, an underscore and a special character.
PageTitles ==
    {JsUndefined, JsNull}
        \cup {JsString(s) : s \in SeqsUpTo({"a", "A", " ", "_", "!"}, MaxTextLen)}

\* Page URLs: well-formed ones, by their scheme, "www.", host and path, with
\* the name the host becomes; and values url.parse finds no hostname in.
PageUrlHosts ==
    {[host |-> <<"a", ".", "c">>, part |-> <<"a", "c">>],
     [host |-> <<"A", "-", "b", ".", "c">>, part |-> <<"a", "-", "b", "c">>]}
NoHostnames == {JsString(<<>>), JsString(<<"a", ".", "c">>), JsString(<<"/", "p">>)}
NoStrings == {JsUndefined, JsNull}
GenerateFilenameCalls ==
    {[fn |-> "generateFilename", pageTitle |-> x, timestamp |-> ts, hasHostname |-> TRUE,
      pageUrl |-> JsString(s \o SlashSlash \o (IF w THEN Www ELSE <<>>) \o h.host \o q),
      part |-> h.part] :
         x \in PageTitles, ts \in Timestamps, s \in {HttpScheme, HttpsScheme},
         w \in BOOLEAN, h \in PageUrlHosts, q \in {<<>>, <<"/", "p">>}}
      \cup {[fn |-> "generateFilename", pageTitle |-> x, timestamp |-> ts,
             hasHostname |-> FALSE, pageUrl |-> u] :
               x \in PageTitles, ts \in Timestamps, u \in NoHostnames \cup NoStrings}

Calls ==
    {[fn |-> "sanitizeFilename", arg |-> x] : x \in FilenameInputs}
        \cup GenerateFilenameCalls
        \cup FindImagesCalls
        \cup {[fn |-> "getContent", arg |-> h, sitename |-> s] :
                 h \in Htmls, s \in {UrlA, UrlBuscandriu}}
        \cup CleanNameCalls
        \cup {[fn |-> "cropGeometry", arg |-> x] : x \in Sizes}

FnInit ==
    /\ call \in Calls
    /\ ret = NoReturn
    /\ tool = (IF call.fn \in {"sanitizeFilename", "cropGeometry", "findImagesInPage",
                               "generateFilename"}
               THEN "crop" ELSE "index")
    /\ sitesIsArray = TRUE
    /\ sites = <<>>
    /\ dir = NoDirectory
    /\ Loaded

CallSanitizeFilename ==
    /\ call.fn = "sanitizeFilename"
    /\ ret = NoReturn
    /\ ret' = Returned(sanitizeFilename(call.arg))
    /\ UNCHANGED <<progVars, call>>

CallCleanName ==
    /\ call.fn = "cleanName"
    /\ ret = NoReturn
    /\ ret' = Returned(cleanNameOf(call.arg))
    /\ UNCHANGED <<progVars, call>>

CallCropGeometry ==
    /\ call.fn = "cropGeometry"
    /\ ret = NoReturn
    /\ ret' = Returned(cropGeometry(call.arg))
    /\ UNCHANGED <<progVars, call>>

\* The part of getContent's request callback that follows cheerio.load.
CallContent ==
    /\ call.fn = "getContent"
    /\ ret = NoReturn
    /\ ret' = Returned(content(call.arg, call.sitename))
    /\ UNCHANGED <<progVars, call>>

\* The part of findImagesInPage's request callback that follows cheerio.load.
CallFindImagesInPage ==
    /\ call.fn = "findImagesInPage"
    /\ ret = NoReturn
    /\ ret' = Returned(findImagesInPage(
                  [titleText |-> <<" ", "T">>,
                   banners |-> [k \in 1..Len(call.banners) |-> call.banners[k].style],
                   imgs |-> call.imgs],
                  call.pageUrl))
    /\ UNCHANGED <<progVars, call>>

CallGenerateFilename ==
    /\ call.fn = "generateFilename"
    /\ ret = NoReturn
    /\ ret' = Returned(generateFilename(call.pageTitle, call.pageUrl, call.timestamp))
    /\ UNCHANGED <<progVars, call>>

FnNext ==
    \/ CallFindImagesInPage
    \/ CallGenerateFilename
    \/ CallContent
    \/ CallSanitizeFilename
    \/ CallCleanName
    \/ CallCropGeometry

FnSpec == FnInit /\ [][FnNext]_vars

(***************************************************************************)
(* Properties                                                              *)
(***************************************************************************)
IndexRun == tool = "index"
CropRun == tool = "crop"

\* A sub-task of site i has failed.
Failed(i) == shot[i] = "err" \/ text[i] = "err"
\* Both sub-tasks of site i have succeeded.
Succeeded(i) == shot[i] = "ok" /\ text[i] = "ok"
\* Both sub-tasks of site i have called back.
Settled(i) == shot[i] \in {"ok", "err"} /\ text[i] \in {"ok", "err"}
\* A sub-task of site i is started and has not called back.
Pending(i) == shot[i] = "inflight" \/ text[i] \in {"fetching", "writing"}

\* The cleaned name of every entry of the list, as a tuple.
Names == [i \in Idx |-> cleanName(sites[i])] \o <<>>

SuccessMsgs(i) ==
    <<Msg("screenshot saved", sites[i]), Msg("file created", cleanName(sites[i]))>>
ErrorKinds == {"shot", "transport", "HTTP404", "HTTP500", "parse", "write"}
ErrSlot(e) == <<Msg("error", <<e>>)>>

\* C1 (as claimed): in the text tool over a valid list, once a site's task has
\* failed every other site's screenshot and text pipeline still runs to its own
\* completion, so the process never ends with a sub-task of another site cut short.
C1_Original ==
    (IndexRun /\ ValidSites /\ pc = "exited")
        => \A i \in Idx : (\E j \in Idx \ {i} : Failed(j)) => Settled(i)

\* C1 (amended): every site's two sub-tasks are started whatever happens to the
\* other sites, but the first failing sub-task ends the process at once with
\* status 1, cutting short whatever is still in flight; the sub-tasks of a site
\* are cut short in no other way, and without a failure every pipeline completes.
C1_Amended ==
    (IndexRun /\ ValidSites /\ pc # "start")
        => /\ \A i \in Idx : shotCount[i] = 1 /\ fetchCount[i] = 1
           /\ (pc = "running" => \A i \in Idx : ~Failed(i))
           /\ (pc = "exited" =>
                 IF \E j \in Idx : Failed(j)
                 THEN exitCode = 1 /\ Cardinality({j \in Idx : Failed(j)}) = 1
                 ELSE \A i \in Idx : Succeeded(i))

C1_Witness ==
    /\ IndexRun /\ pc = "exited" /\ N >= 2
    /\ \E i, j \in Idx : i # j /\ Failed(j) /\ Pending(i)

\* C2 (as claimed): the text tool exits with status 1 only when the site-list
\* validation fails; for a valid list the status is 0 however many sites fail.
C2_Original ==
    (IndexRun /\ pc = "exited") => (exitCode = 1 <=> ~ValidSites)

\* C2 (amended): the text tool exits with status 1 exactly when the site-list
\* validation fails or a sub-task of some site fails; for a valid list the
\* status is 0 only in a run in which no site fails.
C2_Amended ==
    (IndexRun /\ pc = "exited")
        => /\ exitCode \in {0, 1}
           /\ exitCode = 1 <=> (~ValidSites \/ \E i \in Idx : Failed(i))

C2_Witness ==
    /\ IndexRun /\ ValidSites /\ pc = "exited" /\ exitCode = 1
    /\ \E i, j \in Idx : Failed(i) /\ Succeeded(j)

\* C3 (as claimed): when some site fails and others succeed, the final result
\* holds one slot per input URL, the failing site's slot holding its error and
\* every other slot the success messages of its site.
C3_Original ==
    (IndexRun /\ ValidSites /\ mapCalls = 1 /\ \E j \in Idx : Failed(j))
        => \A i \in Idx :
              /\ slotWrites[i] = 1
              /\ IF Failed(i) THEN \E e \in ErrorKinds : results[i] = ErrSlot(e)
                 ELSE results[i] = SuccessMsgs(i)

\* C3 (amended): when a site fails, parseSites' callback receives that site's
\* error as the error of the whole batch, at the first failure; no slot of the
\* result list holds an error: the failing site's slot holds the partial results
\* of its two sub-tasks, the slot of a site that had succeeded holds its two
\* success messages, and the slot of a site still in flight is unassigned.
C3_Amended ==
    (IndexRun /\ ValidSites /\ mapCalls = 1)
        => /\ mapErr # NoError <=> \E j \in Idx : Failed(j)
           /\ \A i \in Idx :
                 IF Failed(i)
                 THEN /\ <<i, mapErr>> \in errors
                      /\ slotWrites[i] = 1
                      /\ results[i] = parResults[i]
                      /\ \A k \in 1..2 : results[i][k] \in {NoMsg, SuccessMsgs(i)[k]}
                 ELSE IF Succeeded(i)
                 THEN slotWrites[i] = 1 /\ results[i] = SuccessMsgs(i)
                 ELSE slotWrites[i] = 0 /\ results[i] = <<>>

\* The first site has succeeded and the second one gets HTTP 404.
C3_Witness ==
    /\ IndexRun /\ N = 2 /\ mapCalls = 1
    /\ Succeeded(1)
    /\ shot[2] = "ok" /\ text[2] = "err" /\ <<2, "HTTP404">> \in errors
    /\ results[1] = SuccessMsgs(1)
    /\ results[2] = <<SuccessMsgs(2)[1], NoMsg>>
    /\ mapErr = "HTTP404"

\* C4 (as claimed): when the batch completes, slot i holds the outcome of input
\* URL i for every i, whatever the completion order, each slot written exactly once.
C4_Original ==
    (IndexRun /\ ValidSites /\ mapCalls = 1)
        => \A i \in Idx : slotWrites[i] = 1 /\ results[i] = parResults[i]

\* C4 (amended): a slot is written at most once and only with the outcome of the
\* input URL of the same index, whatever the completion order; when the batch
\* completes without error every slot has been written exactly once and slot i
\* holds the success messages of URL i.  When it completes with an error, the
\* slots of the sites still in flight have not been written.
C4_Amended ==
    IndexRun
        => \A i \in Idx :
              /\ slotWrites[i] <= 1
              /\ slotWrites[i] = 1 <=> parCalls[i] = 1
              /\ slotWrites[i] = 1 => results[i] = parResults[i]
              /\ slotWrites[i] = 0 => results[i] = <<>>
              /\ (mapCalls = 1 /\ mapErr = NoError)
                    => slotWrites[i] = 1 /\ results[i] = SuccessMsgs(i)

\* The last site completed first, and its outcome is in the last slot.
C4_Witness ==
    /\ IndexRun /\ N = 2 /\ sites[1] # sites[2]
    /\ slotWrites = <<0, 1>>
    /\ results[2] = SuccessMsgs(2) /\ results[2] # SuccessMsgs(1)

\* C5: parseSites called with an empty list or a non-array fails before any
\* per-site task is started: no fetch, no render and no file write happens in
\* that run, the callback gets the error and the process exits with status 1.
C5_NoTaskOnInvalidInput ==
    (IndexRun /\ ~ValidSites /\ pc # "start")
        => /\ pc = "exited" /\ exitCode = 1
           /\ ~completed /\ files = {} /\ mapCalls = 0
           /\ \A i \in Idx :
                 /\ shotCount[i] = 0 /\ fetchCount[i] = 0 /\ writeCount[i] = 0
                 /\ shot[i] = "idle" /\ text[i] = "idle"

C5_Witness ==
    /\ IndexRun /\ ~sitesIsArray /\ N >= 1
    /\ pc = "exited" /\ exitCode = 1
    /\ <<0, "Error processing sites">> \in errors

\* C6 (as claimed): for every valid site list the run ends with the completion
\* message printed, also when sites fail.
C6_Original ==
    (IndexRun /\ ValidSites /\ pc = "exited") => completed

\* C6 (amended): for every valid site list the run always goes on until the
\* process has ended, and it ends with the completion message printed exactly
\* when no site has failed; the first site failure ends it with status 1 and
\* without the completion message, as invalid input does.
C6_Amended ==
    IndexRun
        => /\ pc # "exited" => ENABLED Next
           /\ completed => (ValidSites /\ \A i \in Idx : Succeeded(i))
           /\ (pc = "exited" /\ ValidSites)
                 => (completed <=> \A i \in Idx : ~Failed(i))

C6_Witness ==
    /\ IndexRun /\ ValidSites /\ N >= 2 /\ pc = "exited"
    /\ \E i \in Idx : Failed(i)
    /\ ~completed /\ exitCode = 1

\* C7 (as claimed): parseUrl never invokes its callback while one of its two
\* sub-tasks is still in flight.
C7_Original ==
    IndexRun => \A i \in Idx : parCalls[i] >= 1 => Settled(i)

\* C7 (amended): parseUrl resolves with success only after both of its sub-tasks
\* have succeeded; it resolves with failure as soon as one sub-task fails, even
\* while the other one is still in flight; a failure of either sub-task makes
\* the site's outcome a failure.
C7_Amended ==
    IndexRun
        => \A i \in Idx :
              /\ parCalls[i] <= 1
              /\ parCalls[i] = 1 <=> (Failed(i) \/ Succeeded(i))
              /\ Failed(i) => (mapErr # NoError /\ <<i, mapErr>> \in errors)
              /\ (parCalls[i] = 1 /\ ~Failed(i)) => results[i] = SuccessMsgs(i)

C7_Witness ==
    /\ IndexRun
    /\ \E i \in Idx : parCalls[i] = 1 /\ shot[i] = "err" /\ text[i] = "fetching"

\* A stage of page i is started and has not called back.
PagePending(i) == page[i] \in {"fetching", "downloading", "sizing", "writing"}

PageErrors ==
    {"Failed to fetch page", "HTTP 404 page", "Failed to parse HTML", "No images found",
     "Failed to download image", "HTTP 404 image", "Failed to get image size",
     "Failed to save image"}

\* C8: in the batch run of crop.js over a non-empty list, processPage is started
\* for every URL; a page's failure is logged for that page only and stops no
\* other page; every page gets exactly one outcome, and the process ends only
\* when every page has its outcome, with status 0 whatever number of pages fail.
C8_PagesIndependent ==
    (CropRun /\ ValidSites /\ pc # "start")
        => /\ \A i \in Idx :
                 /\ fetchCount[i] = 1
                 /\ outcomes[i] <= 1
                 /\ outcomes[i] = 1 <=> page[i] \in {"ok", "err"}
                 /\ page[i] = "err"
                       <=> Cardinality({e \in PageErrors : <<i, e>> \in errors}) = 1
                 /\ page[i] # "err" => \A e \in PageErrors : <<i, e>> \notin errors
                 /\ pc = "running" => (PagePending(i) => ENABLED Next)
           /\ \A x \in errors : x[1] \in Idx
           /\ pc = "running" <=> \E i \in Idx : PagePending(i)
           /\ pc = "exited" => (exitCode = 0 /\ \A i \in Idx : outcomes[i] = 1)

C8_Witness ==
    /\ CropRun /\ N >= 2 /\ pc = "exited" /\ exitCode = 0
    /\ \E i, j \in Idx :
          /\ page[i] = "err" /\ <<i, "No images found">> \in errors
          /\ page[j] = "ok" /\ outcomes[j] = 1 /\ downloadCount[j] = 1

\* C9: no retries: in one run each site's page fetch, screenshot render, image
\* download and file write is attempted at most once, and a failed sub-task or
\* page stays failed for the rest of the run.
C9_NoRetries ==
    /\ [](\A i \in Idx :
             /\ shotCount[i] <= 1 /\ fetchCount[i] <= 1
             /\ writeCount[i] <= 1 /\ downloadCount[i] <= 1)
    /\ [][\A i \in Idx :
             /\ shot[i] = "err" => shot'[i] = "err"
             /\ text[i] = "err" => text'[i] = "err"
             /\ page[i] = "err" => page'[i] = "err"
             /\ fetchCount'[i] >= fetchCount[i]]_vars

C9_Witness ==
    /\ CropRun /\ N >= 2 /\ pc = "exited"
    /\ \E i \in Idx :
          /\ page[i] = "err" /\ <<i, "Failed to download image">> \in errors
          /\ fetchCount[i] = 1 /\ downloadCount[i] = 1 /\ writeCount[i] = 0

\* The path of the markdown file site i wrote.
MdPath(i) == CHOOSE q \in {f[1] : f \in {g \in files : g[2] = i}} :
                 SubSeq(q, Len(q) - 2, Len(q)) = ExtMd
JpgPath(i) == CHOOSE q \in {f[1] : f \in {g \in files : g[2] = i}} :
                 SubSeq(q, Len(q) - 3, Len(q)) = ExtJpg

\* C10 (as claimed): no two entries of the site list write the same output
\* path, duplicate URLs and URLs with coinciding cleaned names included.
C10_Original ==
    IndexRun => \A f, g \in files : f[1] = g[1] => f[2] = g[2]

\* C10 (amended): two entries of the site list write the same markdown path and
\* the same screenshot path exactly when cleanName gives their URLs the same
\* name: entries with different cleaned names never write the same path, while
\* duplicate URLs and distinct URLs with coinciding cleaned names do, the later
\* write replacing the earlier file.
C10_Amended ==
    IndexRun
        => LET name == Names
           IN \A i \in Idx :
                 /\ text[i] = "ok" <=> <<name[i] \o ExtMd, i>> \in files
                 /\ shot[i] = "ok" <=> <<name[i] \o ExtJpg, i>> \in files
                 /\ \A j \in Idx :
                       /\ (text[i] = "ok" /\ text[j] = "ok")
                             => (MdPath(i) = MdPath(j) <=> name[i] = name[j])
                       /\ (shot[i] = "ok" /\ shot[j] = "ok")
                             => (JpgPath(i) = JpgPath(j) <=> name[i] = name[j])

\* Two different URLs have written the same markdown file.
C10_Witness ==
    /\ IndexRun /\ N = 2
    /\ sites[1] # sites[2]
    /\ text[1] = "ok" /\ text[2] = "ok"
    /\ MdPath(1) = MdPath(2)

\* "buscandriu" occurs in the URL of site i.
Marked(i) == IndexOf(sites[i], Buscandriu) # 0

\* C19 (as claimed): for a site whose URL contains "buscandriu" the renderer
\* is never invoked, and once the site's tasks are started its screenshot task
\* has called back without error with a 'Skipped' message; for any other site
\* the renderer is invoked and success yields the 'screenshot saved' message.
C19_Original ==
    (IndexRun /\ ValidSites /\ pc # "start")
        => \A i \in Idx :
              IF Marked(i)
              THEN /\ shotCount[i] = 0
                   /\ shot[i] = "ok"
                   /\ parResults[i][1] = Msg("Skipped screenshot for", sites[i])
              ELSE /\ shotCount[i] = 1
                   /\ shot[i] = "ok" => parResults[i][1] = Msg("screenshot saved", sites[i])

\* The renderer was invoked for a buscandriu site and its screenshot was saved.
C19_Witness ==
    /\ IndexRun /\ ValidSites
    /\ \E i \in Idx :
          /\ Marked(i)
          /\ shotCount[i] = 1 /\ shot[i] = "ok"
          /\ parResults[i][1] = Msg("screenshot saved", sites[i])
          /\ <<cleanName(sites[i]) \o ExtJpg, i>> \in files

\* The fetch of site i has failed: a transport failure or a status other than 200.
FetchFailed(i) == \E e \in HttpErrors \cup {"transport"} : <<i, e>> \in errors

\* C20: getContent reports a fetch failure as an error and produces no content
\* for it: a transport failure passes the underlying error on, a status other
\* than 200 an error whose message contains "HTTP <status>"; the error reaches
\* the callbacks above, nothing is handed to writeToFile and no markdown file
\* is written for that site.
C20_FetchFailureIsError ==
    IndexRun
        => \A i \in Idx :
              /\ FetchFailed(i)
                    => /\ text[i] = "err"
                       /\ mapErr \in HttpErrors \cup {"transport"}
                       /\ <<i, mapErr>> \in errors
                       /\ mapErr \in HttpErrors
                             => IndexOf(errorMessage(mapErr, sites[i]),
                                        <<"HTTP ">> \o statusCode(mapErr)) = 1
                       /\ mapErr = "transport"
                             => errorMessage(mapErr, sites[i]) = <<"transport">>
                       /\ parCalls[i] = 1 /\ parResults[i][2] = NoMsg
                       /\ writeCount[i] = 0
                       /\ \A f \in files : f[2] = i => f[1] # cleanName(sites[i]) \o ExtMd
              /\ (fetchCount[i] = 1 /\ text[i] \in {"writing", "ok"}) => ~FetchFailed(i)

\* A status 500 for a site whose screenshot was saved: only the screenshot
\* was written.
C20_Witness ==
    /\ IndexRun /\ pc = "exited" /\ exitCode = 1
    /\ \E i \in Idx :
          /\ <<i, "HTTP500">> \in errors /\ mapErr = "HTTP500"
          /\ shot[i] = "ok" /\ text[i] = "err" /\ writeCount[i] = 0
          /\ {f \in files : f[2] = i} = {<<cleanName(sites[i]) \o ExtJpg, i>>}

(***************************************************************************)
(* Properties of the functions                                             *)
(***************************************************************************)
\* sanitizeFilename has returned r for the text x.
Sanitized(x, r) ==
    /\ call.fn = "sanitizeFilename" /\ call.arg = x
    /\ ret = Returned(r)

IsString(v) == v.type = "string"
EndsWithHyphen(r) == r # <<>> /\ r[Len(r)] = "-"
StartsWithHyphen(r) == r # <<>> /\ r[1] = "-"
LowerDigitHyphen == LowerAlnum \cup {"-"}

\* C11 (as claimed): for every input, sanitizeFilename returns a text of the
\* characters a-z, 0-9 and "-" only, of at most 50 characters, with no hyphen at
\* its start or its end; the empty string and a non-string give "untitled".
C11_Original ==
    (call.fn = "sanitizeFilename" /\ ret.returned)
        => /\ \A k \in 1..Len(ret.value) : ret.value[k] \in LowerDigitHyphen
           /\ Len(ret.value) <= MaxFilenameLength
           /\ ~StartsWithHyphen(ret.value) /\ ~EndsWithHyphen(ret.value)
           /\ (~IsString(call.arg) \/ call.arg.val = <<>>) => ret.value = Untitled

\* C11 (amended): sanitizeFilename returns a text of the characters a-z, 0-9,
\* "-" and "_" only, of at most 50 characters, with no upper-case letter, no
\* white space, no two hyphens in a row and no hyphen at its start; it ends
\* with a hyphen only when the text was cut at 50 characters just after a
\* hyphen; the empty string and a non-string give "untitled", and a text
\* without any kept character gives the empty text.
C11_Amended ==
    (call.fn = "sanitizeFilename" /\ ret.returned)
        => LET r == ret.value
               uncut == sanitizeFilenameUncut(call.arg)
           IN /\ \A k \in 1..Len(r) : r[k] \in LowerDigitHyphen \cup {"_"}
              /\ \A k \in 1..(Len(r) - 1) : ~(r[k] = "-" /\ r[k + 1] = "-")
              /\ Len(r) <= MaxFilenameLength
              /\ ~StartsWithHyphen(r)
              /\ EndsWithHyphen(r)
                    => (Len(r) = MaxFilenameLength /\ Len(uncut) > MaxFilenameLength)
              /\ (~IsString(call.arg) \/ call.arg.val = <<>>) => r = Untitled
              /\ (IsString(call.arg) /\ call.arg.val # <<>>
                    /\ \A k \in 1..Len(call.arg.val) :
                          call.arg.val[k] \in Whitespace \cup {"-", "!"})
                    => r = <<>>

\* A text of 49 letters, a space and a letter is cut just after its hyphen.
C11_Witness ==
    /\ Sanitized(JsString(Pad(MaxFilenameLength - 1) \o <<" ", "a">>),
                 Pad(MaxFilenameLength - 1) \o <<"-">>)

\* C12 (as claimed): sanitizeFilename is idempotent: applied to its own result
\* it returns that result.
C12_Original ==
    (call.fn = "sanitizeFilename" /\ ret.returned)
        => sanitizeFilename(JsString(ret.value)) = ret.value

\* C12 (amended): sanitizeFilename applied to its own result r returns r when
\* r is not empty and does not end with a hyphen; it returns "untitled" when r
\* is empty, and r without its last character when r ends with a hyphen (a
\* text cut at 50 characters just after a hyphen).
C12_Amended ==
    (call.fn = "sanitizeFilename" /\ ret.returned)
        => LET r == ret.value
               again == sanitizeFilename(JsString(r))
           IN /\ (r # <<>> /\ ~EndsWithHyphen(r)) => again = r
              /\ r = <<>> => again = Untitled
              /\ EndsWithHyphen(r) => again = SubSeq(r, 1, Len(r) - 1)
              /\ sanitizeFilename(JsString(again)) = again

\* A text of special characters only gives the empty text, which gives "untitled".
C12_Witness ==
    /\ Sanitized(JsString(<<"!", " ", "!">>), <<>>)
    /\ sanitizeFilename(JsString(<<>>)) = Untitled

\* cleanName has returned for a well-formed URL / for a value that is none.
CleanedUrl == call.fn = "cleanName" /\ call.wellFormed /\ ret.returned
CleanedNoUrl == call.fn = "cleanName" /\ ~call.wellFormed /\ ret.returned

\* C13 (as claimed): cleanName returns "unknown-site" for every malformed URL,
\* the empty string, null, undefined and every value that is no string.
C13_Original ==
    CleanedNoUrl => ret.value = UnknownSite

\* A string without a scheme in which "//" occurs is named after what follows
\* the "//", not "unknown-site".
C13_Witness ==
    /\ CleanedNoUrl
    /\ call.arg = JsString(<<"a", "/", "/", "b">>)
    /\ ret.value = <<"b">>

\* What cleanName slugifies of a well-formed URL: host and path (the path "/"
\* when the URL has none) without their first "www.", up to the next "//".
NamedPart(c) ==
    LET full == (IF c.www THEN Www ELSE <<>>) \o c.host
                    \o (IF c.path = <<>> THEN <<"/">> ELSE c.path)
        stripped == ReplaceFirst(full, Www, <<>>)
        k == IndexOf(stripped, SlashSlash)
    IN IF k = 0 THEN stripped ELSE SubSeq(stripped, 1, k - 1)

Cropped == call.fn = "cropGeometry" /\ ret.returned
Abs(x) == IF x < 0 THEN -x ELSE x
\* The source image is strictly wider than the target ratio.
Wider(size) == size.width * outputHeight > outputWidth * size.height

C16_CenteredMaximalCrop ==
    Cropped
        => LET size == call.arg
               c == ret.value
               left == c.cropX
               right == size.width - c.cropWidth - c.cropX
               top == c.cropY
               bottom == size.height - c.cropHeight - c.cropY
           IN IF Wider(size)
              THEN /\ c.cropHeight = size.height /\ c.cropY = 0
                   /\ 2 * c.cropX \in {size.width - c.cropWidth, size.width - c.cropWidth + 1}
                   /\ right >= 0 /\ Abs(left - right) <= 1
              ELSE /\ c.cropWidth = size.width /\ c.cropX = 0
                   /\ 2 * c.cropY \in {size.height - c.cropHeight, size.height - c.cropHeight + 1}
                   /\ bottom >= 0 /\ Abs(top - bottom) <= 1

\* A wide image with an odd margin: 7 x 1 is cropped to 2 x 1 from x = 3.
C16_Witness ==
    /\ Cropped
    /\ call.arg = [width |-> 7, height |-> 1]
    /\ ret.value = [cropWidth |-> 2, cropHeight |-> 1, cropX |-> 3, cropY |-> 0]

\* getContent has formatted the content of a page.
Formatted == call.fn = "getContent" /\ ret.returned

\* The position of the literal lit in the text s, 0 when it does not occur.
At(s, lit) == IndexOf(s, <<lit>>)
\* The text between the first lit1 and the first lit2 after it.
Between(s, lit1, lit2) ==
    LET a == At(s, lit1)
        rest == SubSeq(s, a + 1, Len(s))
    IN SubSeq(rest, 1, At(rest, lit2) - 1)
Count(s, lit) == Cardinality({k \in 1..Len(s) : s[k] = lit})

FormattedTitle == Between(ret.value, "Title: ", "\n\nDescription: ")
FormattedDescription == Between(ret.value, "\n\nDescription: ", "\n\nURL: ")
HasMeta(h) == h.metaDescription.type = "string"
HasOg(h) == h.ogDescription.type = "string"

\* C17 (as claimed): the description is that of meta[name=description] whenever
\* the page has that element, also when it has og:description too; that of
\* og:description only when meta[name=description] is missing;
\* "No description found" when both are missing; the title is
\* "No title found" when the page has none; neither is ever empty.
C17_Original ==
    Formatted
        => LET h == call.arg
           IN /\ HasMeta(h) => FormattedDescription = h.metaDescription.val
              /\ (~HasMeta(h) /\ HasOg(h)) => FormattedDescription = h.ogDescription.val
              /\ (~HasMeta(h) /\ ~HasOg(h)) => FormattedDescription = NoDescriptionFound
              /\ h.titleText = <<>> => FormattedTitle = NoTitleFound
              /\ FormattedTitle # <<>> /\ FormattedDescription # <<>>

\* C17 (amended): the description is the content of meta[name=description]
\* whenever that content is not empty, whatever og:description is; it is the
\* content of og:description when meta[name=description] is missing or has an
\* empty content and og:description has a content that is not empty; it is
\* "No description found" otherwise.  The title is the trimmed text of the
\* title element, "No title found" when that is empty.  Neither is ever empty.
C17_Amended ==
    Formatted
        => LET h == call.arg
               meta == h.metaDescription
               og == h.ogDescription
           IN /\ (HasMeta(h) /\ meta.val # <<>>) => FormattedDescription = meta.val
              /\ (~(HasMeta(h) /\ meta.val # <<>>) /\ HasOg(h) /\ og.val # <<>>)
                    => FormattedDescription = og.val
              /\ (~(HasMeta(h) /\ meta.val # <<>>) /\ ~(HasOg(h) /\ og.val # <<>>))
                    => FormattedDescription = NoDescriptionFound
              /\ FormattedTitle = (IF h.titleText \in {<<>>, <<" ">>} THEN NoTitleFound
                                   ELSE Trim(h.titleText))
              /\ FormattedTitle # <<>> /\ FormattedDescription # <<>>

\* A page with an empty meta[name=description] and an og:description.
C17_Witness ==
    /\ Formatted
    /\ call.arg.metaDescription = JsString(<<>>)
    /\ call.arg.ogDescription = JsString(<<"O">>)
    /\ FormattedDescription = <<"O">>
    /\ call.arg.titleText = <<>> /\ FormattedTitle = NoTitleFound

\* C18: the content starts with the basic block (Title, Description, URL) and
\* goes on with exactly one site block: for a URL in which "buscandriu" occurs
\* the list item with the title cut at its first "|" and trimmed, and no
\* anchor form; for any other URL the anchor form with the whole title and the
\* description.
C18_OneSiteBlock ==
    Formatted
        => LET c == ret.value
               basic == <<"Title: ">> \o FormattedTitle \o <<"\n\nDescription: ">>
                            \o FormattedDescription \o <<"\n\nURL: ">> \o call.sitename
                            \o <<"\n\n">>
               block == SubSeq(c, Len(basic) + 1, Len(c))
           IN /\ SubSeq(c, 1, Len(basic)) = basic
              /\ Count(c, LiOpen) + Count(c, AnchorOpen) = 1
              /\ IF IndexOf(call.sitename, Buscandriu) # 0
                 THEN /\ block[1] = LiOpen
                      /\ Between(block, LiOpen, LinkOpen)
                            = Trim(SplitFirst(FormattedTitle, <<"|">>))
                      /\ block[Len(block)] = LinkCloseLi
                      /\ Count(block, StrongOpen) = 0
                 ELSE /\ block[1] = AnchorOpen
                      /\ Between(block, StrongOpen, StrongClose) = FormattedTitle
                      /\ Between(block, StrongClose, LinkOpen) = FormattedDescription
                      /\ block[Len(block)] = LinkCloseBr
                      /\ Count(block, LiOpen) = 0

\* The title "F | X" of a buscandriu page is "F" in the list item.
C18_Witness ==
    /\ Formatted
    /\ call.sitename = UrlBuscandriu
    /\ call.arg.titleText = <<"F", " ", "|", " ", "X">>
    /\ FormattedTitle = <<"F", " ", "|", " ", "X">>
    /\ Between(ret.value, LiOpen, LinkOpen) = <<"F">>

\* findImagesInPage has handed its list to the callback.
Found == call.fn = "findImagesInPage" /\ ret.returned
\* The background images of the page's banners and the src values of its img
\* elements, in the order of the document.
BannerUrls ==
    LET withImage == SelectSeq(call.banners, LAMBDA b : Truthy(b.bg))
    IN [k \in 1..Len(withImage) |-> withImage[k].bg.val]
ImgUrls ==
    LET withSrc == SelectSeq(call.imgs, Truthy)
    IN [k \in 1..Len(withSrc) |-> withSrc[k].val]

\* C21: findImagesInPage returns the background images of the banners in
\* document order; it returns the img sources, in document order, only when no
\* banner has a background image, so the two kinds never mix; a page with
\* neither gives the empty list.
C21_BannersBeforeImgs ==
    Found
        => LET images == ret.value
               from == IF BannerUrls # <<>> THEN BannerUrls ELSE ImgUrls
               source == IF BannerUrls # <<>> THEN "background-image" ELSE "src"
           IN /\ Len(images) = Len(from)
              /\ \A k \in 1..Len(images) :
                    /\ images[k].source = source
                    /\ images[k].url = absoluteUrl(from[k], call.pageUrl)
              /\ (BannerUrls = <<>> /\ ImgUrls = <<>>) => images = <<>>

\* A page with two different banner images and an img with a src.
C21_Witness ==
    /\ Found
    /\ Len(BannerUrls) = 2
    /\ BannerUrls[1] # BannerUrls[2]
    /\ ImgUrls # <<>>
    /\ Len(ret.value) = 2

\* The URL the page gave the k-th returned image.
SourceUrl(k) == IF BannerUrls # <<>> THEN BannerUrls[k] ELSE ImgUrls[k]
StartsWith(s, prefix) == IndexOf(s, prefix) = 1

\* C23: every returned image URL is the page's URL resolved against the page:
\* a protocol-relative URL takes the scheme of the page, a root-relative URL
\* the scheme and host of the page, a path-relative URL replaces the last
\* segment of the page's path, and an absolute URL is kept.
C23_Original ==
    Found
        => \A k \in 1..Len(ret.value) :
              LET u == SourceUrl(k)
                  base == call.pageUrl
                  resolved == ret.value[k].url
              IN IF StartsWith(u, SlashSlash) THEN resolved = UrlProtocol(base) \o u
                 ELSE IF StartsWith(u, <<"/">>)
                 THEN resolved = UrlProtocol(base) \o SlashSlash \o UrlHost(base) \o u
                 ELSE IF IndexOf(u, <<":">> \o SlashSlash) # 0 THEN resolved = u
                 ELSE resolved = UrlResolve(base, u)

\* The img "httpx" of the page http://a.c/d/p is returned as "httpx".
C23_Witness ==
    /\ Found
    /\ call.pageUrl = HttpScheme \o SlashSlash \o <<"a", ".", "c", "/", "d", "/", "p">>
    /\ BannerUrls = <<>>
    /\ ImgUrls = <<PathRelativeHttp>>
    /\ ret.value[1].url = PathRelativeHttp


\* generateFilename has returned.
Generated == call.fn = "generateFilename" /\ ret.returned
FallbackName == <<CroppedImage, call.timestamp>> \o ExtJpg
\* The title part of the name: the sanitized title, "untitled" for a title
\* that is absent or blank or of special characters only.
TitlePart ==
    LET x == call.pageTitle
    IN IF ~Truthy(x) \/ Trim(x.val) = <<>> \/ sanitizeFilename(x) = <<>>
       THEN Untitled ELSE sanitizeFilename(x)
GeneratedName(hostPart) ==
    hostPart \o <<"_">> \o TitlePart \o <<"_", call.timestamp>> \o ExtJpg

\* C24 (as claimed): generateFilename returns host_title_timestamp.jpg with no
\* empty part for a pageUrl with a hostname, and cropped_image_timestamp.jpg
\* for every pageUrl without one.
C24_Original ==
    Generated
        => /\ call.hasHostname => ret.value = GeneratedName(call.part)
           /\ ~call.hasHostname => ret.value = FallbackName

\* C24 (amended): generateFilename returns host_title_timestamp.jpg with no
\* empty part for every pageUrl that is a string, the host part being
\* "unknown" when the URL has no hostname; it returns
\* cropped_image_timestamp.jpg only for a pageUrl that is no string.
C24_Amended ==
    Generated
        => /\ TitlePart # <<>>
           /\ call.hasHostname => call.part # <<>> /\ ret.value = GeneratedName(call.part)
           /\ (~call.hasHostname /\ IsString(call.pageUrl))
                 => ret.value = GeneratedName(Unknown)
           /\ ~IsString(call.pageUrl) => ret.value = FallbackName

\* generateFilename("!", "a.c") has returned unknown_untitled_timestamp.jpg.
C24_Witness ==
    /\ Generated
    /\ call.pageUrl = JsString(<<"a", ".", "c">>)
    /\ call.pageTitle = JsString(<<"!">>)
    /\ ret.value = Unknown \o <<"_">> \o Untitled \o <<"_", call.timestamp>> \o ExtJpg


(***************************************************************************)
(* Properties of crop.js                                                   *)
(***************************************************************************)
\* The errors the batch loop has logged for page i, and the files page i wrote.
ErrorsOf(i) == {e[2] : e \in {x \in errors : x[1] = i}}
FilesOf(i) == {f[1] : f \in {x \in files : x[2] = i}}
BeforeDownload ==
    {"Failed to fetch page", "HTTP 404 page", "Failed to parse HTML", "No images found"}
BeforeWrite == {"Failed to download image", "HTTP 404 image", "Failed to get image size"}

\* The stages of a page in their order: each stage runs at most once and only
\* after the one before it, a file is written by a page that succeeded only,
\* and a failed page has one error, with no download after a failure of the
\* fetch or the extraction and no write after a failure of the download.
StagesInOrder ==
    \A i \in Idx :
        /\ fetchCount[i] <= 1 /\ downloadCount[i] <= 1 /\ writeCount[i] <= 1
        /\ downloadCount[i] = 1 => fetchCount[i] = 1 /\ page[i] \notin {"idle", "fetching"}
        /\ writeCount[i] = 1 => downloadCount[i] = 1 /\ page[i] \in {"writing", "ok", "err"}
        /\ FilesOf(i) # {} => page[i] = "ok" /\ writeCount[i] = 1
        /\ page[i] = "err"
              => /\ \E e \in PageErrors : ErrorsOf(i) = {e}
                 /\ ErrorsOf(i) \subseteq BeforeDownload => downloadCount[i] = 0
                 /\ ErrorsOf(i) \subseteq BeforeDownload \cup BeforeWrite => writeCount[i] = 0
                 /\ ErrorsOf(i) = {"Failed to save image"} => writeCount[i] = 1

\* A failed page stays as it is, and the three failures have their errors.
FailureEndsPage ==
    \A i \in Idx :
        /\ page[i] = "err"
              => /\ page'[i] = "err" /\ fetchCount'[i] = fetchCount[i]
                 /\ downloadCount'[i] = downloadCount[i] /\ writeCount'[i] = writeCount[i]
        /\ PageRequestDone(i, "transport")
              => page'[i] = "err" /\ <<i, "Failed to fetch page">> \in errors'
        /\ PageRequestDone(i, "empty")
              => /\ page'[i] = "err" /\ <<i, "No images found">> \in errors'
                 /\ downloadCount'[i] = 0
        /\ ImageRequestDone(i, "transport")
              => page'[i] = "err" /\ <<i, "Failed to download image">> \in errors'

\* C22: processPage runs its stages in order and the first failing stage ends
\* the page with an error: no later stage runs and the page writes no file; a
\* page without images fails with "No images found" and no download, a failed
\* page fetch with "Failed to fetch page", a failed image download with
\* "Failed to download image".
C22_FirstFailureEndsPage ==
    [](CropRun => StagesInOrder) /\ [][CropRun => FailureEndsPage]_vars

\* A page without images has failed with no download, and another page of the
\* same run has written its image.
C22_Witness ==
    /\ CropRun
    /\ \E i, j \in Idx :
          /\ page[i] = "err" /\ ErrorsOf(i) = {"No images found"} /\ downloadCount[i] = 0
          /\ page[j] = "ok" /\ FilesOf(j) # {}

\* C25: in a batch run of crop.js emptyDirectory is called once, before any
\* processPage is started, and never later; no file is removed from the output
\* directory once the pages are started, so the images of the run stay; the
\* sub-directories are kept.
C25_EmptiedOnceBeforePages ==
    /\ [](CropRun => /\ (pc # "start" /\ ValidSites) => emptyCalls = 1
                     /\ ~ValidSites => emptyCalls = 0
                     /\ \A f \in files : f[1] \in dir.files)
    /\ [][CropRun => /\ emptyCalls' # emptyCalls
                           => pc = "start" /\ \A i \in Idx : fetchCount[i] = 0
                     /\ pc # "start" => dir.files \subseteq dir'.files
                     /\ dir'.subdirs = dir.subdirs]_vars

\* The stale file is gone, the sub-directory is there, one page has written
\* its image and another page is still being processed.
C25_Witness ==
    /\ CropRun
    /\ StaleFile \notin dir.files
    /\ dir.subdirs = {SubDirectory}
    /\ \E i, j \in Idx : FilesOf(i) # {} /\ FilesOf(i) \subseteq dir.files /\ PagePending(j)


(***************************************************************************)
(* Properties of index.js: log, callbacks, order                           *)
(***************************************************************************)
\* The success message of a written file.
ArtifactMsg(f) ==
    IF SubSeq(f[1], Len(f[1]) - 3, Len(f[1])) = ExtJpg
    THEN Msg("screenshot saved", sites[f[2]])
    ELSE Msg("file created", cleanName(sites[f[2]]))
Printed == {log[k] : k \in DOMAIN log}

\* C26 (as claimed): the log is printed only once no task of any site is in
\* flight, and when the run has ended it holds the success message of every
\* file the run wrote.
C26_Original ==
    (IndexRun /\ ValidSites)
        => /\ log # <<>> => \A i \in Idx : ~InFlight(Cur, i)
           /\ pc = "exited" => \A f \in files : ArtifactMsg(f) \in Printed

\* C26 (amended): the log is printed only once every site has succeeded, with
\* nothing in flight, and then holds the success message of every file the run
\* wrote; when a site fails, the error of the batch is logged, the process ends
\* with status 1, and no success message is printed, whatever was written.
C26_Amended ==
    (IndexRun /\ ValidSites)
        => /\ log # <<>>
                 => /\ \A i \in Idx : Succeeded(i) /\ ~InFlight(Cur, i)
                    /\ pc = "exited" /\ exitCode = 0
           /\ (pc = "exited" /\ \A i \in Idx : ~Failed(i))
                 => /\ Len(log) = 2 * N
                    /\ \A f \in files : ArtifactMsg(f) \in Printed
           /\ (\E j \in Idx : Failed(j))
                 => /\ log = <<>>
                    /\ pc = "exited" /\ exitCode = 1
                    /\ <<0, "Error processing sites">> \in errors

\* A site has failed after files were written: nothing is printed for them.
C26_Witness ==
    /\ IndexRun /\ ValidSites /\ pc = "exited"
    /\ \E j \in Idx : Failed(j)
    /\ files # {}
    /\ log = <<>>


\* The outcomes of the request that are errors of getContent.
FetchErrors == {"transport", "HTTP404", "HTTP500", "parse"}
\* The request of site i has called back.
Fetched(i) == text[i] \in {"writing", "ok", "err"}

\* C27 (as claimed): when the run has ended, every site's parseUrl callback and
\* the batch's final callback have been called exactly once.
C27_Original ==
    (IndexRun /\ ValidSites /\ pc = "exited")
        => /\ mapCalls = 1
           /\ \A i \in Idx : parCalls[i] = 1

\* C27 (amended): no callback is called twice. getContent calls its callback
\* once for the outcome of its request, with an error or with a result, never
\* both; parseUrl's callback is called once for a site that has failed or
\* whose two sub-tasks have succeeded, and not at all for a site that is cut
\* short by the end of the process; the batch's final callback is called once,
\* at the first failure or when every site has succeeded. No site has both
\* sub-tasks failed and no run has two failed sites.
C27_Amended ==
    (IndexRun /\ ValidSites)
        => /\ mapCalls <= 1
           /\ mapCalls = 1 <=> ((\E j \in Idx : Failed(j)) \/ \A i \in Idx : Succeeded(i))
           /\ pc = "exited" => mapCalls = 1
           /\ Cardinality({j \in Idx : Failed(j)}) <= 1
           /\ \A i \in Idx :
                 /\ contentCalls[i] = (IF Fetched(i) THEN 1 ELSE 0)
                 /\ contentCalls[i] = 1
                       => ((\E e \in FetchErrors : <<i, e>> \in errors) <=> writeCount[i] = 0)
                 /\ parCalls[i] = (IF Failed(i) \/ Succeeded(i) THEN 1 ELSE 0)
                 /\ ~(shot[i] = "err" /\ text[i] = "err")

\* A site has got HTTP 404 and its callbacks were called once; another site
\* was cut short and its callbacks were not called.
C27_Witness ==
    /\ IndexRun /\ ValidSites /\ pc = "exited"
    /\ \E i, j \in Idx :
          /\ <<i, "HTTP404">> \in errors /\ contentCalls[i] = 1 /\ parCalls[i] = 1
          /\ Pending(j) /\ text[j] = "fetching" /\ contentCalls[j] = 0 /\ parCalls[j] = 0
    /\ mapCalls = 1


\* C28 (as claimed): a site's markdown file is written at most once and only
\* after its page was fetched with status 200 and formatted, and the write can
\* start whatever the state of the site's screenshot is, failed included.
C28_Original ==
    IndexRun
        => \A i \in Idx :
              /\ writeCount[i] <= 1
              /\ writeCount[i] = 1 => \A e \in FetchErrors : <<i, e>> \notin errors
              /\ (text[i] = "fetching" /\ \A j \in Idx \ {i} : ~Failed(j))
                    => ENABLED RequestDone(i, "ok")

\* C28 (amended): a site's markdown file is written at most once and only
\* after its page was fetched with status 200 and formatted; the write starts
\* whether the site's screenshot is still in flight or has succeeded, but it
\* never starts after the screenshot has failed, because that failure has
\* ended the process.
C28_Amended ==
    /\ [](IndexRun
            => \A i \in Idx :
                  /\ writeCount[i] <= 1
                  /\ writeCount[i] = 1
                        => /\ fetchCount[i] = 1 /\ contentCalls[i] = 1
                           /\ \A e \in FetchErrors : <<i, e>> \notin errors
                  /\ (text[i] = "fetching" /\ pc = "running")
                        => shot[i] \in {"inflight", "ok"} /\ ENABLED RequestDone(i, "ok")
                  /\ (text[i] = "fetching" /\ shot[i] = "err")
                        => pc = "exited" /\ ~ENABLED RequestDone(i, "ok"))
    /\ [][IndexRun
            => \A i \in Idx :
                  writeCount'[i] # writeCount[i]
                     => /\ text[i] = "fetching" /\ text'[i] = "writing"
                        /\ shot[i] \in {"inflight", "ok"}]_vars

\* One site's write has started while its screenshot is in flight, another
\* site's after its screenshot has succeeded.
C28_Witness ==
    /\ IndexRun /\ pc = "running"
    /\ \E i, j \in Idx :
          /\ text[i] = "writing" /\ shot[i] = "inflight"
          /\ text[j] = "writing" /\ shot[j] = "ok"


\* C29: the result of parseUrl for a site whose two sub-tasks have succeeded
\* is the screenshot message followed by the file message, whichever sub-task
\* completed first: each message is stored at the position of its sub-task,
\* and the step that completes the second sub-task, be it the write after the
\* screenshot or the screenshot after the write, hands on the same result.
C29_FixedResultOrder ==
    /\ [](IndexRun
            => \A i \in Idx :
                  /\ parResults[i][1] = (IF shot[i] = "ok" THEN SuccessMsgs(i)[1] ELSE NoMsg)
                  /\ parResults[i][2] = (IF text[i] = "ok" THEN SuccessMsgs(i)[2] ELSE NoMsg)
                  /\ Succeeded(i) => parCalls[i] = 1 /\ results[i] = SuccessMsgs(i))
    /\ [][IndexRun
            => \A i \in Idx :
                  /\ (shot[i] = "ok" /\ text[i] = "writing" /\ text'[i] = "ok")
                        => results'[i] = SuccessMsgs(i)
                  /\ (text[i] = "ok" /\ shot[i] = "inflight" /\ shot'[i] = "ok")
                        => results'[i] = SuccessMsgs(i)]_vars

\* The screenshot of one site has completed before its text pipeline and the
\* text pipeline of another site before its screenshot.
C29_Witness ==
    /\ IndexRun /\ pc = "running"
    /\ \E i, j \in Idx :
          /\ shot[i] = "ok" /\ text[i] = "writing"
          /\ parResults[i] = <<SuccessMsgs(i)[1], NoMsg>>
          /\ text[j] = "ok" /\ shot[j] = "inflight"
          /\ parResults[j] = <<NoMsg, SuccessMsgs(j)[2]>>


====
